---- MODULE Spec2Model ----
(***************************************************************************)
(* A model of fenna's SVG -> Castle DrawData conversion pipeline.          *)
(*                                                                         *)
(*   parseSvg            src/lib/converter/parseSvg.ts                     *)
(*   normalizeColor, rgb2lab, deltaE, mapColorToPalette, buildColorMap,    *)
(*   buildCastleDrawData src/lib/castle/render.ts                          *)
(*   renderFillPng, computeBounds, viewBoxToCastleTransform, tocastle,     *)
(*   cubicToQuadratic, convertElement, convertAllPaths, multiply,          *)
(*   transformPoint      src/lib/converter/renderFills.ts                  *)
(*   AAP_64_HEX, hexToCastleColor   src/unnamed/part_000                   *)
(*                                                                         *)
(* Representation.                                                         *)
(*  - A JavaScript string is a sequence of one-character strings; the      *)
(*    empty sequence is the empty string.  null and "" are both falsy in   *)
(*    every place the code tests them, so an absent attribute and a null   *)
(*    colour are the empty sequence too.                                   *)
(*  - A JavaScript number is a fixed-point integer with denominator Unit   *)
(*    (drawing units, SVG user units, matrix entries) or LabUnit (Lab      *)
(*    coordinates and Delta E); products are rounded to nearest by Div.    *)
(*    The inputs are kept in the range where every value is finite.        *)
(***************************************************************************)
EXTENDS Integers, Sequences, FiniteSets, TLC

\* -------------------------------------------------------------------------
\* Numbers
\* -------------------------------------------------------------------------

\* Denominator of the fixed-point drawing-unit numbers: 0.001 is 1.
Unit == 1000

\* Denominator of the fixed-point Lab numbers: 0.01 is 1.
LabUnit == 100

Abs(x) == IF x < 0 THEN -x ELSE x

Max(a, b) == IF a > b THEN a ELSE b

Min(a, b) == IF a < b THEN a ELSE b

\* a / b rounded to the nearest integer, halves away from zero (b # 0).
Div(a, b) ==
  LET n == IF b < 0 THEN -a ELSE a
      d == Abs(b)
  IN IF n >= 0 THEN (2 * n + d) \div (2 * d)
     ELSE -((2 * (-n) + d) \div (2 * d))

\* Fixed-point product and quotient of two Unit-scaled numbers.
FMul(a, b) == Div(a * b, Unit)

FDiv(a, b) == Div(a * Unit, b)

\* Math.ceil of a Unit-scaled number, as a plain integer.
Ceil(a) == -((-a) \div Unit)

\* base with its digit of weight w: the largest hexadecimal digit d with
\* (base + d * w)^2 <= n.
SqrtDigit(n, base, w) ==
  base + w * Cardinality({d \in 1..15 : base + d * w <= 46340
                                         /\ (base + d * w) * (base + d * w) <= n})

\* The integer part of Math.sqrt, found one hexadecimal digit at a time.
SqrtSearch(n) == SqrtDigit(n, SqrtDigit(n, SqrtDigit(n, SqrtDigit(n, 0, 4096), 256), 16), 1)

\* Math.sqrt on integers, rounded to nearest (n >= 0, n < 2^31).
ISqrt(n) ==
  LET r == SqrtSearch(n)
  IN IF n - r * r > r THEN r + 1 ELSE r

\* -------------------------------------------------------------------------
\* Strings
\* -------------------------------------------------------------------------

EmptyStr == <<>>

UpperChars == <<"A","B","C","D","E","F","G","H","I","J","K","L","M",
                "N","O","P","Q","R","S","T","U","V","W","X","Y","Z">>

LowerChars == <<"a","b","c","d","e","f","g","h","i","j","k","l","m",
                "n","o","p","q","r","s","t","u","v","w","x","y","z">>

DigitChars == <<"0","1","2","3","4","5","6","7","8","9">>

HexChars == DigitChars \o <<"a","b","c","d","e","f">>

IndexOf(seq, c) ==
  IF \E i \in 1..Len(seq) : seq[i] = c
  THEN CHOOSE i \in 1..Len(seq) : seq[i] = c /\ \A j \in 1..(i-1) : seq[j] # c
  ELSE 0

LowerChar(c) == IF IndexOf(UpperChars, c) > 0 THEN LowerChars[IndexOf(UpperChars, c)] ELSE c

\* String.prototype.toLowerCase
ToLowerCase(s) == [i \in 1..Len(s) |-> LowerChar(s[i])]

IsSpace(c) == c = " "

IsDigit(c) == IndexOf(DigitChars, c) > 0

\* String.prototype.trim
Trim(s) ==
  LET keep == {i \in 1..Len(s) : ~IsSpace(s[i])}
  IN IF keep = {} THEN EmptyStr
     ELSE LET lo == CHOOSE i \in keep : \A j \in keep : i <= j
              hi == CHOOSE i \in keep : \A j \in keep : i >= j
          IN SubSeq(s, lo, hi)

\* String.prototype.substring(a, b) with 0-based, end-exclusive indices.
Substring(s, a, b) == SubSeq(s, Min(a, Len(s)) + 1, Min(b, Len(s)))

\* String.prototype.startsWith
StartsWith(s, p) == Len(s) >= Len(p) /\ SubSeq(s, 1, Len(p)) = p

\* Number.prototype.toString(16) for n >= 0
RECURSIVE ToHex(_)
ToHex(n) == IF n < 16 THEN <<HexChars[n + 1]>> ELSE ToHex(n \div 16) \o <<HexChars[(n % 16) + 1]>>

\* String.prototype.padStart(2, "0")
PadStart2(s) == IF Len(s) >= 2 THEN s ELSE IF Len(s) = 1 THEN <<"0">> \o s ELSE <<"0","0">>

\* parseInt(s) in base 10 of a non-empty digit string
RECURSIVE ParseDec(_)
ParseDec(s) == IF s = <<>> THEN 0 ELSE 10 * ParseDec(SubSeq(s, 1, Len(s) - 1)) + (IndexOf(DigitChars, s[Len(s)]) - 1)

\* NaN as a result of parseInt
NaN == -1

\* parseInt(s, 16): the value of the longest prefix of hex digits, NaN when
\* there is none (also for "0x": the prefix is dropped and nothing is left).
RECURSIVE ParseHexDigits(_, _)
ParseHexDigits(s, acc) ==
  IF s = <<>> \/ IndexOf(HexChars, LowerChar(s[1])) = 0 THEN acc
  ELSE ParseHexDigits(Tail(s), 16 * acc + (IndexOf(HexChars, LowerChar(s[1])) - 1))

ParseInt16(s) ==
  IF s = <<>> \/ IndexOf(HexChars, LowerChar(s[1])) = 0 THEN NaN
  ELSE IF Len(s) >= 2 /\ s[1] = "0" /\ LowerChar(s[2]) = "x"
       THEN (IF Len(s) = 2 THEN NaN ELSE ParseHexDigits(SubSeq(s, 3, Len(s)), 0))
       ELSE ParseHexDigits(s, 0)

\* -------------------------------------------------------------------------
\* Colour model (mapColors: normalizeColor, hexToRgb, rgb2lab, deltaE,
\* mapColorToPalette, buildColorMap) and the AAP-64 palette
\* -------------------------------------------------------------------------

\* AAP_64_HEX
AAP_64_HEX == <<
  <<"#","0","6","0","6","0","8">>, <<"#","1","4","1","0","1","3">>, <<"#","3","b","1","7","2","5">>, <<"#","7","3","1","7","2","d">>,
  <<"#","b","4","2","0","2","a">>, <<"#","d","f","3","e","2","3">>, <<"#","f","a","6","a","0","a">>, <<"#","f","9","a","3","1","b">>,
  <<"#","f","f","d","5","4","1">>, <<"#","f","f","f","c","4","0">>, <<"#","d","6","f","2","6","4">>, <<"#","9","c","d","b","4","3">>,
  <<"#","5","9","c","1","3","5">>, <<"#","1","4","a","0","2","e">>, <<"#","1","a","7","a","3","e">>, <<"#","2","4","5","2","3","b">>,
  <<"#","1","2","2","0","2","0">>, <<"#","1","4","3","4","6","4">>, <<"#","2","8","5","c","c","4">>, <<"#","2","4","9","f","d","e">>,
  <<"#","2","0","d","6","c","7">>, <<"#","a","6","f","c","d","b">>, <<"#","f","f","f","f","f","f">>, <<"#","f","e","f","3","c","0">>,
  <<"#","f","a","d","6","b","8">>, <<"#","f","5","a","0","9","7">>, <<"#","e","8","6","a","7","3">>, <<"#","b","c","4","a","9","b">>,
  <<"#","7","9","3","a","8","0">>, <<"#","4","0","3","3","5","3">>, <<"#","2","4","2","2","3","4">>, <<"#","2","2","1","c","1","a">>,
  <<"#","3","2","2","b","2","8">>, <<"#","7","1","4","1","3","b">>, <<"#","b","b","7","5","4","7">>, <<"#","d","b","a","4","6","3">>,
  <<"#","f","4","d","2","9","c">>, <<"#","d","6","b","1","b","1">>, <<"#","c","7","c","f","c","c">>, <<"#","9","2","a","7","b","0">>,
  <<"#","6","5","7","3","9","2">>, <<"#","4","2","4","c","6","e">>, <<"#","2","a","2","1","3","7">>, <<"#","4","d","2","b","3","2">>,
  <<"#","7","a","3","0","4","5">>, <<"#","a","d","4","f","4","e">>, <<"#","d","4","7","b","6","e">>, <<"#","e","7","a","7","8","d">>,
  <<"#","c","2","8","5","6","9">>, <<"#","9","a","6","3","4","8">>, <<"#","7","0","4","0","2","8">>, <<"#","5","7","2","3","1","8">>,
  <<"#","3","7","1","a","0","f">>, <<"#","2","e","1","1","0","8">>, <<"#","4","6","2","8","1","8">>, <<"#","7","5","5","0","3","8">>,
  <<"#","a","8","8","4","6","0">>, <<"#","c","f","b","4","8","d">>, <<"#","f","2","d","f","b","a">>, <<"#","e","d","e","4","c","d">>,
  <<"#","d","7","c","b","a","c">>, <<"#","b","a","a","5","8","c">>, <<"#","9","f","8","b","6","b">>, <<"#","7","3","5","f","4","4">>
>>

At(s, i) == IF i \in 1..Len(s) THEN s[i] ELSE ""

RECURSIVE SkipSpaces(_, _)
SkipSpaces(s, i) == IF IsSpace(At(s, i)) THEN SkipSpaces(s, i + 1) ELSE i

RECURSIVE SkipDigits(_, _)
SkipDigits(s, i) == IF IsDigit(At(s, i)) THEN SkipDigits(s, i + 1) ELSE i

\* The least element of a non-empty set of positions.
Leftmost(hits) == CHOOSE i \in hits : \A j \in hits : i <= j

\* The first index of a set of indices, 0 for none.
FirstOf(hits) == IF hits = {} THEN 0 ELSE Leftmost(hits)

\* The rest of the regular expression rgba?\(\s*(\d+)\s*,\s*(\d+)\s*,\s*(\d+)
\* from position p of c, which follows the "(" or a ",", with the digit
\* groups captured so far: \s*(\d+) and, before the third group, \s*, .
\* a..b are the digits, q the place of the comma.  The character classes of
\* adjacent parts are disjoint, so the greedy match is the only one.
RECURSIVE RgbGroups(_, _, _)
RgbGroups(c, p, groups) ==
  LET a == SkipSpaces(c, p)
      b == SkipDigits(c, a)
      q == SkipSpaces(c, b)
  IN IF b = a THEN <<>>
     ELSE IF Len(groups) = 2 THEN Append(groups, SubSeq(c, a, b - 1))
     ELSE IF At(c, q) = "," THEN RgbGroups(c, q + 1, Append(groups, SubSeq(c, a, b - 1)))
     ELSE <<>>

\* The regular expression tried at position i of c: the three digit groups,
\* or <<>> when it does not match there.
RgbMatchAt(c, i) ==
  IF At(c, i) = "r" /\ At(c, i + 1) = "g" /\ At(c, i + 2) = "b"
     /\ At(c, IF At(c, i + 3) = "a" THEN i + 4 ELSE i + 3) = "("
  THEN RgbGroups(c, (IF At(c, i + 3) = "a" THEN i + 4 ELSE i + 3) + 1, <<>>)
  ELSE <<>>

\* c.match(/rgba?\(.../): the left-most match, or <<>> for null.
RgbMatch(c) ==
  LET In(hits) == IF hits = {} THEN <<>> ELSE RgbMatchAt(c, Leftmost(hits))
  IN In({i \in 1..Len(c) : RgbMatchAt(c, i) # <<>>})

\* The table `named` of normalizeColor: name, value (<<>> is null).
NamedColors == <<
  <<"black", "#000000">>, <<"white", "#ffffff">>, <<"red", "#ff0000">>,
  <<"green", "#008000">>, <<"blue", "#0000ff">>, <<"yellow", "#ffff00">>,
  <<"cyan", "#00ffff">>, <<"magenta", "#ff00ff">>, <<"orange", "#ffa500">>,
  <<"purple", "#800080">>, <<"pink", "#ffc0cb">>, <<"gray", "#808080">>,
  <<"grey", "#808080">>, <<"silver", "#c0c0c0">>, <<"maroon", "#800000">>,
  <<"olive", "#808000">>, <<"lime", "#00ff00">>, <<"aqua", "#00ffff">>,
  <<"teal", "#008080">>, <<"navy", "#000080">>, <<"fuchsia", "#ff00ff">>,
  <<"transparent", "">>, <<"none", "">> >>

\* The characters of a TLA+ string literal of the tables above.
Chars(lit) ==
  CASE lit = "" -> <<>>
    [] lit = "black" -> <<"b","l","a","c","k">>
    [] lit = "white" -> <<"w","h","i","t","e">>
    [] lit = "red" -> <<"r","e","d">>
    [] lit = "green" -> <<"g","r","e","e","n">>
    [] lit = "blue" -> <<"b","l","u","e">>
    [] lit = "yellow" -> <<"y","e","l","l","o","w">>
    [] lit = "cyan" -> <<"c","y","a","n">>
    [] lit = "magenta" -> <<"m","a","g","e","n","t","a">>
    [] lit = "orange" -> <<"o","r","a","n","g","e">>
    [] lit = "purple" -> <<"p","u","r","p","l","e">>
    [] lit = "pink" -> <<"p","i","n","k">>
    [] lit = "gray" -> <<"g","r","a","y">>
    [] lit = "grey" -> <<"g","r","e","y">>
    [] lit = "silver" -> <<"s","i","l","v","e","r">>
    [] lit = "maroon" -> <<"m","a","r","o","o","n">>
    [] lit = "olive" -> <<"o","l","i","v","e">>
    [] lit = "lime" -> <<"l","i","m","e">>
    [] lit = "aqua" -> <<"a","q","u","a">>
    [] lit = "teal" -> <<"t","e","a","l">>
    [] lit = "navy" -> <<"n","a","v","y">>
    [] lit = "fuchsia" -> <<"f","u","c","h","s","i","a">>
    [] lit = "transparent" -> <<"t","r","a","n","s","p","a","r","e","n","t">>
    [] lit = "none" -> <<"n","o","n","e">>
    [] lit = "#000000" -> <<"#","0","0","0","0","0","0">>
    [] lit = "#ffffff" -> <<"#","f","f","f","f","f","f">>
    [] lit = "#ff0000" -> <<"#","f","f","0","0","0","0">>
    [] lit = "#008000" -> <<"#","0","0","8","0","0","0">>
    [] lit = "#0000ff" -> <<"#","0","0","0","0","f","f">>
    [] lit = "#ffff00" -> <<"#","f","f","f","f","0","0">>
    [] lit = "#00ffff" -> <<"#","0","0","f","f","f","f">>
    [] lit = "#ff00ff" -> <<"#","f","f","0","0","f","f">>
    [] lit = "#ffa500" -> <<"#","f","f","a","5","0","0">>
    [] lit = "#800080" -> <<"#","8","0","0","0","8","0">>
    [] lit = "#ffc0cb" -> <<"#","f","f","c","0","c","b">>
    [] lit = "#808080" -> <<"#","8","0","8","0","8","0">>
    [] lit = "#c0c0c0" -> <<"#","c","0","c","0","c","0">>
    [] lit = "#800000" -> <<"#","8","0","0","0","0","0">>
    [] lit = "#808000" -> <<"#","8","0","8","0","0","0">>
    [] lit = "#00ff00" -> <<"#","0","0","f","f","0","0">>
    [] lit = "#008080" -> <<"#","0","0","8","0","8","0">>
    [] lit = "#000080" -> <<"#","0","0","0","0","8","0">>

\* Normalize any CSS color string to 6-digit hex; <<>> is null.  Lower is the
\* function on c = color.trim().toLowerCase(); Hex is the branch for a
\* leading "#" on h = c.slice(1); Matched is the rest once the rgb() match m
\* is made; Named is the lookup with the rows of the table whose name is c.
NormalizeColor(color) ==
  LET Hex(h) ==
        IF Len(h) = 3 THEN <<"#", h[1], h[1], h[2], h[2], h[3], h[3]>>
        ELSE IF Len(h) = 6 THEN <<"#">> \o h
        ELSE IF Len(h) = 8 THEN <<"#">> \o Substring(h, 0, 6)
        ELSE <<>>
      Rgb(m) ==
        <<"#">> \o PadStart2(ToHex(ParseDec(m[1])))
               \o PadStart2(ToHex(ParseDec(m[2])))
               \o PadStart2(ToHex(ParseDec(m[3])))
      Named(rows) ==
        IF rows # {} THEN Chars(NamedColors[CHOOSE i \in rows : TRUE][2]) ELSE <<>>
      Matched(c, m) ==
        IF m # <<>> THEN Rgb(m)
        ELSE Named({i \in 1..Len(NamedColors) : Chars(NamedColors[i][1]) = c})
      Lower(c) ==
        IF StartsWith(c, <<"#">>) THEN Hex(Tail(c)) ELSE Matched(c, RgbMatch(c))
  IN Lower(ToLowerCase(Trim(color)))

\* hex.replace("#", ""): the first "#" removed.
RemoveFirstHash(hex) ==
  LET RemoveAt(i) ==
        IF i = 0 THEN hex ELSE SubSeq(hex, 1, i - 1) \o SubSeq(hex, i + 1, Len(hex))
  IN RemoveAt(IndexOf(hex, "#"))

\* The three channels of the hex digits h.
Channels(h) ==
  <<ParseInt16(Substring(h, 0, 2)), ParseInt16(Substring(h, 2, 4)), ParseInt16(Substring(h, 4, 6))>>

\* Parse a hex color to RGB values (0-255); a channel may be NaN.
HexToRgb(hex) == Channels(RemoveFirstHash(hex))

\* The CastleColor of three channels.
CastleColorOf(rgb) ==
  [r |-> Div(rgb[1] * Unit, 255), g |-> Div(rgb[2] * Unit, 255), b |-> Div(rgb[3] * Unit, 255),
   a |-> Unit]

\* Convert a hex color string to CastleColor (floats 0-1, Unit-scaled).
HexToCastleColor(hex) == CastleColorOf(Channels(RemoveFirstHash(hex)))

\* rgb2lab on the colours of the model (the AAP-64 palette and the input
\* colours): the value the code computes, rounded to 1/LabUnit.  A NaN channel
\* gives a NaN Lab colour, written <<>>.
Rgb2Lab(r, g, b) ==
  LET k == r * 65536 + g * 256 + b
  IN IF r = NaN \/ g = NaN \/ b = NaN THEN <<>> ELSE
  CASE
       k = 394760 -> <<168, 28, -76>>   \* #060608
    [] k = 1314835 -> <<512, 217, -111>>   \* #141013
    [] k = 3872549 -> <<1369, 1961, -109>>   \* #3b1725
    [] k = 7542573 -> <<2510, 4059, 1095>>   \* #73172d
    [] k = 11804714 -> <<3942, 5731, 3349>>   \* #b4202a
    [] k = 14630435 -> <<5099, 6075, 5132>>   \* #df3e23
    [] k = 16411146 -> <<6222, 5150, 6919>>   \* #fa6a0a
    [] k = 16360219 -> <<7382, 2276, 7384>>   \* #f9a31b
    [] k = 16766273 -> <<8662, 42, 7390>>   \* #ffd541
    [] k = 16776256 -> <<9651, -1891, 8340>>   \* #fffc40
    [] k = 14086756 -> <<9111, -2854, 6387>>   \* #d6f264
    [] k = 10279747 -> <<8081, -4244, 6498>>   \* #9cdb43
    [] k = 5882165 -> <<6984, -5470, 5796>>   \* #59c135
    [] k = 1351726 -> <<5755, -5709, 4745>>   \* #14a02e
    [] k = 1735230 -> <<4492, -4117, 2523>>   \* #1a7a3e
    [] k = 2380347 -> <<3117, -2200, 879>>   \* #24523b
    [] k = 1187872 -> <<1103, -600, -193>>   \* #122020
    [] k = 1324132 -> <<2203, 728, -3172>>   \* #143464
    [] k = 2645188 -> <<4136, 2093, -5920>>   \* #285cc4
    [] k = 2400222 -> <<6203, -1051, -4097>>   \* #249fde
    [] k = 2152135 -> <<7759, -4521, -469>>   \* #20d6c7
    [] k = 10943707 -> <<9294, -3290, 762>>   \* #a6fcdb
    [] k = 16777215 -> <<10000, 0, 0>>   \* #ffffff
    [] k = 16708544 -> <<9557, -408, 2598>>   \* #fef3c0
    [] k = 16438968 -> <<8791, 816, 1948>>   \* #fad6b8
    [] k = 16097431 -> <<7406, 3053, 1779>>   \* #f5a097
    [] k = 15231603 -> <<6052, 4958, 1906>>   \* #e86a73
    [] k = 12339867 -> <<4945, 5492, -2142>>   \* #bc4a9b
    [] k = 7944832 -> <<3530, 3841, -2781>>   \* #793a80
    [] k = 4207443 -> <<2394, 1341, -1732>>   \* #403353
    [] k = 2368052 -> <<1421, 592, -1143>>   \* #242234
    [] k = 2235418 -> <<1089, 249, 246>>   \* #221c1a
    [] k = 3287848 -> <<1818, 258, 313>>   \* #322b28
    [] k = 7422267 -> <<3315, 2010, 1263>>   \* #71413b
    [] k = 12285255 -> <<5583, 2305, 3650>>   \* #bb7547
    [] k = 14394467 -> <<7122, 1299, 4133>>   \* #dba463
    [] k = 16044700 -> <<8587, 446, 3119>>   \* #f4d29c
    [] k = 14070193 -> <<7540, 1337, 503>>   \* #d6b1b1
    [] k = 13094860 -> <<8245, -328, 54>>   \* #c7cfcc
    [] k = 9611184 -> <<6719, -536, -710>>   \* #92a7b0
    [] k = 6648722 -> <<4839, 242, -1856>>   \* #657392
    [] k = 4344942 -> <<3282, 542, -2090>>   \* #424c6e
    [] k = 2761015 -> <<1471, 986, -1273>>   \* #2a2137
    [] k = 5057330 -> <<2207, 1677, 228>>   \* #4d2b32
    [] k = 8007749 -> <<3107, 3438, 346>>   \* #7a3045
    [] k = 11358030 -> <<4567, 3837, 1928>>   \* #ad4f4e
    [] k = 13925230 -> <<6104, 3319, 2215>>   \* #d47b6e
    [] k = 15181709 -> <<7390, 2033, 2278>>   \* #e7a78d
    [] k = 12748137 -> <<6102, 2012, 2454>>   \* #c28569
    [] k = 10117960 -> <<4732, 1922, 2447>>   \* #9a6348
    [] k = 7356456 -> <<3240, 1840, 2345>>   \* #704028
    [] k = 5710616 -> <<2119, 2319, 1897>>   \* #572318
    [] k = 3611151 -> <<1314, 1314, 1335>>   \* #371a0f
    [] k = 3019016 -> <<899, 1401, 1048>>   \* #2e1108
    [] k = 4597784 -> <<1958, 1218, 1636>>   \* #462818
    [] k = 7688248 -> <<3749, 1250, 2033>>   \* #755038
    [] k = 11043936 -> <<5773, 891, 2469>>   \* #a88460
    [] k = 13612173 -> <<7472, 397, 2350>>   \* #cfb48d
    [] k = 15916986 -> <<8949, 83, 2052>>   \* #f2dfba
    [] k = 15590605 -> <<9073, -74, 1232>>   \* #ede4cd
    [] k = 14142380 -> <<8191, -82, 1699>>   \* #d7cbac
    [] k = 12232076 -> <<6893, 369, 1577>>   \* #baa58c
    [] k = 10455915 -> <<5888, 258, 1991>>   \* #9f8b6b
    [] k = 7561028 -> <<4161, 396, 1849>>   \* #735f44
    [] k = 16711680 -> <<5324, 8009, 6720>>   \* #ff0000
    [] k = 65280 -> <<8773, -8618, 8318>>   \* #00ff00
    [] k = 255 -> <<3230, 7919, -10786>>   \* #0000ff
    [] k = 0 -> <<0, 0, 0>>   \* #000000
    [] k = 8421504 -> <<5359, 0, 0>>   \* #808080
    [] k = 16776960 -> <<9714, -2155, 9448>>   \* #ffff00

Sq(x) == x * x

\* deltaE with the lightness difference taken as a sum.
DeltaE_SumL(lab1, lab2) ==
  LET Result(dL, dC, dH2, sL, sC, sH) ==
        ISqrt(Max(0, Sq(Div(dL * LabUnit, sL)) + Sq(Div(dC * LabUnit, sC))
                       + Sq(Div(ISqrt(dH2) * LabUnit, sH))))
      WithChroma(dL, da, db, c1, dC) ==
        Result(dL, dC, Max(0, da * da + db * db - dC * dC),
               LabUnit, LabUnit + Div(45 * c1, 1000), LabUnit + Div(15 * c1, 1000))
      WithDiffs(dL, da, db, c1, c2) == WithChroma(dL, da, db, c1, c1 - c2)
  IN WithDiffs(lab1[1] + lab2[1], lab1[2] - lab2[2], lab1[3] - lab2[3],
               ISqrt(lab1[2] * lab1[2] + lab1[3] * lab1[3]),
               ISqrt(lab2[2] * lab2[2] + lab2[3] * lab2[3]))

\* CIE94 color difference.  The steps of the code are local operators so
\* that each value is computed once: WithDiffs has dL, da, db, c1, c2;
\* WithChroma adds dC; Result has dH2 (clamped at 0) and the weights sL, sC,
\* sH and returns Math.sqrt(Math.max(0, result)).  dH2 / (sH * sH) is
\* computed as (sqrt(dH2) / sH)^2.
DeltaE(lab1, lab2) ==
  LET Result(dL, dC, dH2, sL, sC, sH) ==
        ISqrt(Max(0, Sq(Div(dL * LabUnit, sL)) + Sq(Div(dC * LabUnit, sC))
                       + Sq(Div(ISqrt(dH2) * LabUnit, sH))))
      WithChroma(dL, da, db, c1, dC) ==
        Result(dL, dC, Max(0, da * da + db * db - dC * dC),
               LabUnit, LabUnit + Div(45 * c1, 1000), LabUnit + Div(15 * c1, 1000))
      WithDiffs(dL, da, db, c1, c2) == WithChroma(dL, da, db, c1, c1 - c2)
  IN WithDiffs(lab1[1] - lab2[1], lab1[2] - lab2[2], lab1[3] - lab2[3],
               ISqrt(lab1[2] * lab1[2] + lab1[3] * lab1[3]),
               ISqrt(lab2[2] * lab2[2] + lab2[3] * lab2[3]))

\* JavaScript's Infinity, the initial bestDist of mapColorToPalette.
Infinity == 2147483647

\* dist <= bestDist: a later palette slot of equal distance wins.
DistLess_OrEqual(dist, bestDist) == dist # NaN /\ dist <= bestDist

\* dist < bestDist, false when dist is NaN.
DistLess(dist, bestDist) == dist # NaN /\ dist < bestDist

\* deltaE(lab, pLab) with NaN propagated.
Dist(lab, pLab) == IF lab = <<>> \/ pLab = <<>> THEN NaN ELSE DeltaE(lab, pLab)

\* rgb2lab of the channels of a hex colour.
LabOfRgb(rgb) == Rgb2Lab(rgb[1], rgb[2], rgb[3])

\* One pass of the loop of mapColorToPalette, at 0-based index i: best is
\* bestIndex and bestDist before the pass, the value is the pair after it.
MapStep(lab, paletteHexColors, i, best) ==
  LET dist == Dist(lab, LabOfRgb(HexToRgb(paletteHexColors[i + 1])))
  IN IF DistLess(dist, best.deltaE) THEN [index |-> i, deltaE |-> dist] ELSE best

\* The passes lo .. hi - 1 of the loop of mapColorToPalette in index order:
\* the lower half of the range, then the upper half from the best that the
\* lower half leaves.  bestDist is a number after every pass (DistLess is
\* false of a NaN distance), and testing it has the lower half computed before
\* the upper half starts.
RECURSIVE MapLoop(_, _, _, _, _)
MapLoop(lab, paletteHexColors, lo, hi, best) ==
  IF hi <= lo THEN best
  ELSE IF hi = lo + 1 THEN MapStep(lab, paletteHexColors, lo, best)
  ELSE LET lower == MapLoop(lab, paletteHexColors, lo, (lo + hi) \div 2, best)
       IN IF lower.deltaE # NaN
          THEN MapLoop(lab, paletteHexColors, (lo + hi) \div 2, hi, lower)
          ELSE lower

\* Find the nearest palette color for a given hex color.
MapColorToPalette(hex, paletteHexColors) ==
  MapLoop(LabOfRgb(HexToRgb(hex)), paletteHexColors, 0, Len(paletteHexColors),
          [index |-> 0, deltaE |-> Infinity])

\* Map.has / Map.get on a map kept as the sequence of its entries in
\* insertion order.
MapHas(map, key) == \E i \in 1..Len(map) : map[i].original = key

MapGet(map, key) == map[CHOOSE i \in 1..Len(map) : map[i].original = key]

\* Build a complete color mapping from SVG colors to palette colors.  Add is
\* the body of the loop for a normalized colour that is not yet in the map,
\* Entry the map.set once mapColorToPalette has returned m.
RECURSIVE BuildColorMapLoop(_, _, _, _)
BuildColorMapLoop(svgColors, paletteHex, paletteCastle, map) ==
  LET Entry(normalized, m) ==
        [original |-> normalized,
         paletteIndex |-> m.index,
         paletteHex |-> paletteHex[m.index + 1],
         castleColor |-> paletteCastle[m.index + 1],
         deltaE |-> m.deltaE]
      Add(normalized) ==
        IF normalized = <<>> \/ MapHas(map, normalized)
        THEN BuildColorMapLoop(Tail(svgColors), paletteHex, paletteCastle, map)
        ELSE BuildColorMapLoop(Tail(svgColors), paletteHex, paletteCastle,
               Append(map, Entry(normalized, MapColorToPalette(normalized, paletteHex))))
  IN IF svgColors = <<>> THEN map ELSE Add(NormalizeColor(Head(svgColors)))

BuildColorMap(svgColors, paletteHex, paletteCastle) ==
  BuildColorMapLoop(svgColors, paletteHex, paletteCastle, <<>>)

\* AAP_64_CASTLE
AAP_64_CASTLE == [i \in 1..Len(AAP_64_HEX) |-> HexToCastleColor(AAP_64_HEX[i])]

\* -------------------------------------------------------------------------
\* Matrix utilities (matrix: IDENTITY, multiply, transformPoint,
\* parseTransform).  A matrix is <<a, b, c, d, e, f>>, Unit-scaled.
\* -------------------------------------------------------------------------

IDENTITY == <<Unit, 0, 0, Unit, 0, 0>>

\* multiply with its arguments in the other order: result = m2 * m1
Multiply_Swapped(m1, m2) ==
  << FMul(m2[1], m1[1]) + FMul(m2[3], m1[2]),
     FMul(m2[2], m1[1]) + FMul(m2[4], m1[2]),
     FMul(m2[1], m1[3]) + FMul(m2[3], m1[4]),
     FMul(m2[2], m1[3]) + FMul(m2[4], m1[4]),
     FMul(m2[1], m1[5]) + FMul(m2[3], m1[6]) + m2[5],
     FMul(m2[2], m1[5]) + FMul(m2[4], m1[6]) + m2[6] >>

\* Multiply two affine matrices: result = m1 * m2
Multiply(m1, m2) ==
  << FMul(m1[1], m2[1]) + FMul(m1[3], m2[2]),
     FMul(m1[2], m2[1]) + FMul(m1[4], m2[2]),
     FMul(m1[1], m2[3]) + FMul(m1[3], m2[4]),
     FMul(m1[2], m2[3]) + FMul(m1[4], m2[4]),
     FMul(m1[1], m2[5]) + FMul(m1[3], m2[6]) + m1[5],
     FMul(m1[2], m2[5]) + FMul(m1[4], m2[6]) + m1[6] >>

\* Apply matrix to a point
TransformPoint(m, x, y) ==
  << FMul(m[1], x) + FMul(m[3], y) + m[5], FMul(m[2], x) + FMul(m[4], y) + m[6] >>

\* Math.sin of the whole degrees 0..90, in millionths.
SinTable == <<
  0, 17452, 34899, 52336, 69756, 87156, 104528, 121869, 139173, 156434,
  173648, 190809, 207912, 224951, 241922, 258819, 275637, 292372, 309017, 325568,
  342020, 358368, 374607, 390731, 406737, 422618, 438371, 453990, 469472, 484810,
  500000, 515038, 529919, 544639, 559193, 573576, 587785, 601815, 615661, 629320,
  642788, 656059, 669131, 681998, 694658, 707107, 719340, 731354, 743145, 754710,
  766044, 777146, 788011, 798636, 809017, 819152, 829038, 838671, 848048, 857167,
  866025, 874620, 882948, 891007, 898794, 906308, 913545, 920505, 927184, 933580,
  939693, 945519, 951057, 956305, 961262, 965926, 970296, 974370, 978148, 981627,
  984808, 987688, 990268, 992546, 994522, 996195, 997564, 998630, 999391, 999848,
  1000000
>>

\* Math.sin of an angle in whole degrees, in millionths; Math.cos(a) is the
\* sine of a + 90.
SinDegMicro(a) ==
  LET t == ((a % 360) + 360) % 360
  IN IF t <= 90 THEN SinTable[t + 1]
     ELSE IF t <= 180 THEN SinTable[181 - t]
     ELSE IF t <= 270 THEN -SinTable[t - 179]
     ELSE -SinTable[361 - t]

\* Math.sin of an angle in tenths of a degree, in millionths: the table,
\* interpolated between whole degrees.
SinTenth(a) ==
  Div(SinDegMicro((a - (a % 10)) \div 10) * (10 - (a % 10))
      + SinDegMicro((a - (a % 10)) \div 10 + 1) * (a % 10), 10)

\* x * t for a factor t in millionths.
MulMicro(x, t) ==
  IF t < 0 THEN -(Div(x * ((-t) \div 1000), 1000) + Div(x * ((-t) % 1000), 1000000))
  ELSE Div(x * (t \div 1000), 1000) + Div(x * (t % 1000), 1000000)

\* x / t for a divisor t > 0 in millionths (|x| up to two million).
DivMicro(x, t) ==
  IF x < 0 THEN -((((-x) * 1000) \div t) * 1000 + Div((((-x) * 1000) % t) * 1000, t))
  ELSE ((x * 1000) \div t) * 1000 + Div(((x * 1000) % t) * 1000, t)

\* Math.atan2(y, x) to the nearest whole degree (0 for the zero vector): the
\* angle of (|x|, |y|) is the number of half-way marks k - 0.5 it has
\* reached, and the signs of x and y give the quadrant.
Atan2Deg(y, x) ==
  LET b == Cardinality({k \in 1..90 :
                          Abs(y) * SinTenth(10 * k + 895) >= Abs(x) * SinTenth(10 * k - 5)})
  IN IF x >= 0 THEN (IF y >= 0 THEN b ELSE -b)
     ELSE (IF y >= 0 THEN 180 - b ELSE b - 180)

\* Math.cos / Math.sin / Math.tan of an angle given in whole degrees,
\* Unit-scaled.
CosDeg(a) == Div(SinDegMicro(a + 90), 1000)

SinDeg(a) == Div(SinDegMicro(a), 1000)

TanDeg(a) ==
  IF SinDegMicro(a + 90) < 0 THEN -DivMicro(SinDeg(a), -SinDegMicro(a + 90))
  ELSE DivMicro(SinDeg(a), SinDegMicro(a + 90))

\* The matrix of one transform primitive [type, args]: type is the
\* lower-cased name the regular expression captured, args the numbers of its
\* argument list (lengths and translations Unit-scaled, angles in degrees).
PrimitiveMatrix(prim) ==
  LET args == prim.args
      type == prim.type
  IN CASE type = "matrix" -> <<args[1], args[2], args[3], args[4], args[5], args[6]>>
       [] type = "translate" -> <<Unit, 0, 0, Unit, args[1], IF Len(args) > 1 THEN args[2] ELSE 0>>
       [] type = "scale" -> <<args[1], 0, 0, IF Len(args) > 1 THEN args[2] ELSE args[1], 0, 0>>
       [] type = "rotate" ->
            LET cos == CosDeg(args[1])
                sin == SinDeg(args[1])
            IN IF Len(args) = 3
               THEN Multiply(<<Unit, 0, 0, Unit, args[2], args[3]>>,
                             Multiply(<<cos, sin, -sin, cos, 0, 0>>,
                                      <<Unit, 0, 0, Unit, -args[2], -args[3]>>))
               ELSE <<cos, sin, -sin, cos, 0, 0>>
       [] type = "skewx" -> <<Unit, 0, TanDeg(args[1]), Unit, 0, 0>>
       [] type = "skewy" -> <<Unit, TanDeg(args[1]), 0, Unit, 0, 0>>
       [] OTHER -> IDENTITY

\* The loop of parseTransform with result = multiply(m, result).
RECURSIVE ParseTransformLoop_PreMultiply(_, _)
ParseTransformLoop_PreMultiply(prims, result) ==
  IF prims = <<>> THEN result
  ELSE ParseTransformLoop_PreMultiply(Tail(prims), Multiply(PrimitiveMatrix(Head(prims)), result))

\* Parse an SVG transform attribute (the sequence of its primitives, in
\* written order) into a matrix.
RECURSIVE ParseTransformLoop(_, _)
ParseTransformLoop(prims, result) ==
  IF prims = <<>> THEN result
  ELSE ParseTransformLoop(Tail(prims), Multiply(result, PrimitiveMatrix(Head(prims))))

ParseTransform(transform) == ParseTransformLoop(transform, IDENTITY)

\* -------------------------------------------------------------------------
\* The SVG flattener (parseSvg)
\* -------------------------------------------------------------------------

\* Lower-cased tag names, attribute names and literals of the code.
T_svg == <<"s","v","g">>

T_g == <<"g">>

T_path == <<"p","a","t","h">>

T_rect == <<"r","e","c","t">>

T_circle == <<"c","i","r","c","l","e">>

T_ellipse == <<"e","l","l","i","p","s","e">>

T_line == <<"l","i","n","e">>

T_polygon == <<"p","o","l","y","g","o","n">>

T_polyline == <<"p","o","l","y","l","i","n","e">>

T_defs == <<"d","e","f","s">>

T_clippath == <<"c","l","i","p","p","a","t","h">>

T_mask == <<"m","a","s","k">>

T_lineargradient == <<"l","i","n","e","a","r","g","r","a","d","i","e","n","t">>

T_radialgradient == <<"r","a","d","i","a","l","g","r","a","d","i","e","n","t">>

T_stop == <<"s","t","o","p">>

A_fill == <<"f","i","l","l">>

A_stroke == <<"s","t","r","o","k","e">>

A_stopcolor == <<"s","t","o","p","-","c","o","l","o","r">>

S_urlOpen == <<"u","r","l","(">>

S_urlHash == <<"u","r","l","(","#">>

BLACK == <<"#","0","0","0","0","0","0">>


\* A path command of svg-pathdata after toAbs(): type and absolute operands.
Cmd(type, x1, y1, x2, y2, x, y) ==
  [type |-> type, x1 |-> x1, y1 |-> y1, x2 |-> x2, y2 |-> y2, x |-> x, y |-> y,
   rX |-> 0, rY |-> 0, xRot |-> 0, lArcFlag |-> 0, sweepFlag |-> 0]

CmdM(x, y) == Cmd("M", 0, 0, 0, 0, x, y)

CmdL(x, y) == Cmd("L", 0, 0, 0, 0, x, y)

CmdH(x) == Cmd("H", 0, 0, 0, 0, x, 0)

CmdV(y) == Cmd("V", 0, 0, 0, 0, 0, y)

CmdQ(x1, y1, x, y) == Cmd("Q", x1, y1, 0, 0, x, y)

CmdC(x1, y1, x2, y2, x, y) == Cmd("C", x1, y1, x2, y2, x, y)

CmdS(x2, y2, x, y) == Cmd("S", 0, 0, x2, y2, x, y)

CmdT(x, y) == Cmd("T", 0, 0, 0, 0, x, y)

CmdZ == Cmd("Z", 0, 0, 0, 0, 0, 0)

CmdA(rX, rY, xRot, lArcFlag, sweepFlag, x, y) ==
  [type |-> "A", x1 |-> 0, y1 |-> 0, x2 |-> 0, y2 |-> 0, x |-> x, y |-> y,
   rX |-> rX, rY |-> rY, xRot |-> xRot, lArcFlag |-> lArcFlag, sweepFlag |-> sweepFlag]

\* A path d string: kind "null" (no d: null or the empty string), "bad" (a
\* string svg-pathdata throws on) or "cmds" (a string it parses, with the
\* commands toAbs() gives).  Numbers survive the template string and the
\* parser unchanged, so a shape's d is given by its commands.
NullD == [kind |-> "null", cmds |-> <<>>]

BadD == [kind |-> "bad", cmds |-> <<>>]

PathD(cmds) == [kind |-> "cmds", cmds |-> cmds]

\* parseFloat(el.getAttribute(name) || dflt) of a numeric attribute kept as
\* <<>> (absent) or <<n>>.
NumAttr(attr, dflt) == IF attr = <<>> THEN dflt ELSE attr[1]

\* rectToPath leaving the plain rectangle open: no Z.
RectToPath_Open(el) ==
  LET x == NumAttr(el.x, 0)
      y == NumAttr(el.y, 0)
      w == NumAttr(el.width, 0)
      h == NumAttr(el.height, 0)
  IN IF w <= 0 \/ h <= 0 THEN NullD
     ELSE PathD(<< CmdM(x, y), CmdL(x + w, y), CmdL(x + w, y + h), CmdL(x, y + h) >>)

RectToPath(el) ==
  LET x == NumAttr(el.x, 0)
      y == NumAttr(el.y, 0)
      w == NumAttr(el.width, 0)
      h == NumAttr(el.height, 0)
      rx == NumAttr(el.rx, 0)
      ry == NumAttr(el.ry, rx)
      r == Min(rx, Div(w, 2))
      rv == Min(ry, Div(h, 2))
  IN IF w <= 0 \/ h <= 0 THEN NullD
     ELSE IF rx > 0 \/ ry > 0
     THEN PathD(<< CmdM(x + r, y), CmdL(x + w - r, y),
                   CmdA(r, rv, 0, 0, 1, x + w, y + rv), CmdL(x + w, y + h - rv),
                   CmdA(r, rv, 0, 0, 1, x + w - r, y + h), CmdL(x + r, y + h),
                   CmdA(r, rv, 0, 0, 1, x, y + h - rv), CmdL(x, y + rv),
                   CmdA(r, rv, 0, 0, 1, x + r, y), CmdZ >>)
     ELSE PathD(<< CmdM(x, y), CmdL(x + w, y), CmdL(x + w, y + h), CmdL(x, y + h), CmdZ >>)

CircleToPath(el) ==
  LET cx == NumAttr(el.cx, 0)
      cy == NumAttr(el.cy, 0)
      r == NumAttr(el.r, 0)
  IN IF r <= 0 THEN NullD
     ELSE PathD(<< CmdM(cx - r, cy), CmdA(r, r, 0, 1, 0, cx + r, cy),
                   CmdA(r, r, 0, 1, 0, cx - r, cy), CmdZ >>)

EllipseToPath(el) ==
  LET cx == NumAttr(el.cx, 0)
      cy == NumAttr(el.cy, 0)
      rx == NumAttr(el.rx, 0)
      ry == NumAttr(el.ry, 0)
  IN IF rx <= 0 \/ ry <= 0 THEN NullD
     ELSE PathD(<< CmdM(cx - rx, cy), CmdA(rx, ry, 0, 1, 0, cx + rx, cy),
                   CmdA(rx, ry, 0, 1, 0, cx - rx, cy), CmdZ >>)

LineToPath(el) ==
  PathD(<< CmdM(NumAttr(el.x1, 0), NumAttr(el.y1, 0)), CmdL(NumAttr(el.x2, 0), NumAttr(el.y2, 0)) >>)

\* The L commands of polygonToPath's loop from 0-based index i on.
RECURSIVE PointsLoop(_, _)
PointsLoop(coords, i) ==
  IF i >= Len(coords) THEN <<>>
  ELSE <<CmdL(coords[i + 1], coords[i + 2])>> \o PointsLoop(coords, i + 2)

\* el.points is the number list points.trim().split(/[\s,]+/).map(Number),
\* <<>> when the attribute is absent.  An odd number of coordinates writes
\* "undefined" into the d string, which svg-pathdata does not parse.
PolylineToPath(el) ==
  LET coords == el.points
  IN IF coords = <<>> \/ Len(coords) < 4 THEN NullD
     ELSE IF Len(coords) % 2 = 1 THEN BadD
     ELSE PathD(<<CmdM(coords[1], coords[2])>> \o PointsLoop(coords, 2))

PolygonToPath(el) ==
  LET open == PolylineToPath(el)
  IN IF open.kind = "cmds" THEN PathD(open.cmds \o <<CmdZ>>) ELSE open

\* The regular expression  attr\s*:\s*([^;]+)  tried at position i of style:
\* the captured text, or <<>> when it does not match there.  When nothing but
\* the end or a ";" follows the blanks, the last blank is the capture.
RECURSIVE SkipValue(_, _)
SkipValue(s, i) == IF i > Len(s) \/ s[i] = ";" THEN i ELSE SkipValue(s, i + 1)

\* The regular expression attr\s*:\s*([^;]+) tried at position i of style:
\* the capture, <<>> for no match.  p1 is the place of ":", p2 the place
\* after the spaces that follow it, p3 the end of the value; when no value
\* follows the spaces, the last space is given back to the capture.
StyleMatchAt(style, attr, i) ==
  LET Capture(p1, p2, p3) ==
        IF At(style, p1) # ":" THEN <<>>
        ELSE IF p3 > p2 THEN SubSeq(style, p2, p3 - 1)
        ELSE IF p2 > p1 + 1 THEN <<" ">> ELSE <<>>
      Value(p1, p2) == Capture(p1, p2, SkipValue(style, p2))
      Colon(p1) == Value(p1, SkipSpaces(style, p1 + 1))
  IN IF i + Len(attr) - 1 <= Len(style) /\ SubSeq(style, i, i + Len(attr) - 1) = attr
     THEN Colon(SkipSpaces(style, i + Len(attr)))
     ELSE <<>>

\* style.match(new RegExp(attr + "\\s*:\\s*([^;]+)"))?.[1]: the capture of
\* the left-most match, <<>> for no match (or no style attribute).
StyleMatch(style, attr) ==
  LET In(hits) == IF hits = {} THEN <<>> ELSE StyleMatchAt(style, attr, Leftmost(hits))
  IN In({i \in 1..Len(style) : StyleMatchAt(style, attr, i) # <<>>})

\* a || b || c on strings
Or3(a, b, c) == IF a # <<>> THEN a ELSE IF b # <<>> THEN b ELSE c

\* The string getElementColor normalizes: the trimmed capture of the inline
\* style, else the attribute, else the parent's value; <<>> when there is
\* none of them.  fillAttr is the node's current fill attribute (the walk
\* may have rewritten it).
ColorSource(el, fillAttr, attr, parentStyle) ==
  LET m == StyleMatch(el.style, attr)
      val == IF attr = A_fill THEN fillAttr ELSE el.stroke
  IN IF m # <<>> THEN [found |-> TRUE, text |-> Trim(m)]
     ELSE IF val # <<>> THEN [found |-> TRUE, text |-> val]
     ELSE IF parentStyle # <<>> THEN [found |-> TRUE, text |-> parentStyle]
     ELSE [found |-> FALSE, text |-> <<>>]

\* The return of getElementColor for the source it has picked.
ColorOfSource(source, attr) ==
  IF source.found THEN NormalizeColor(source.text)
  ELSE IF attr = A_fill THEN BLACK ELSE <<>>

\* getElementColor; <<>> is null.
GetElementColor(el, fillAttr, attr, parentStyle) ==
  ColorOfSource(ColorSource(el, fillAttr, attr, parentStyle), attr)

\* fillRef.match(/url\(#([^)]+)\)/)?.[1]: the id, <<>> for no match.
RECURSIVE SkipId(_, _)
SkipId(s, i) == IF i > Len(s) \/ s[i] = ")" THEN i ELSE SkipId(s, i + 1)

UrlIdAt(s, i) ==
  LET To(p) == IF p > i + 5 /\ At(s, p) = ")" THEN SubSeq(s, i + 5, p - 1) ELSE <<>>
  IN IF i + 4 <= Len(s) /\ SubSeq(s, i, i + 4) = S_urlHash
     THEN To(SkipId(s, i + 5)) ELSE <<>>

UrlId(s) ==
  LET In(hits) == IF hits = {} THEN <<>> ELSE UrlIdAt(s, Leftmost(hits))
  IN In({i \in 1..Len(s) : UrlIdAt(s, i) # <<>>})

\* A document is the pre-order list of its elements, each with its depth
\* (the root <svg> is element 1 at depth 0).
Descendants(nodes, i) ==
  {j \in (i + 1)..Len(nodes) : \A k \in (i + 1)..j : nodes[k].depth > nodes[i].depth}

\* node.children in document order
Children(nodes, i) ==
  LET InOrder(ds) ==
        [k \in 1..Cardinality(ds) |->
           CHOOSE j \in ds : Cardinality({m \in ds : m < j}) = k - 1]
  IN InOrder({j \in Descendants(nodes, i) : nodes[j].depth = nodes[i].depth + 1})

\* doc.getElementById(id): 0 for null
GetElementById(nodes, id) == FirstOf({j \in 1..Len(nodes) : nodes[j].id = id})

\* gradEl.querySelector("stop"): 0 for null
FirstStop(nodes, i) ==
  FirstOf({j \in Descendants(nodes, i) : ToLowerCase(nodes[j].tag) = T_stop})

\* The value walk writes into the node's fill attribute for a gradient
\* reference: the first stop's normalized colour, or the attribute unchanged.
\* The local operators are the nested conditions of the code, each taking
\* the value the code has just computed.
GradientFill(nodes, i) ==
  LET FromNormalized(fillRef, normalized) ==
        IF normalized # <<>> THEN normalized ELSE fillRef
      FromStopColor(fillRef, stopColor) ==
        IF stopColor = <<>> THEN fillRef
        ELSE FromNormalized(fillRef, NormalizeColor(stopColor))
      FromStop(fillRef, firstStop) ==
        IF firstStop = 0 THEN fillRef
        ELSE FromStopColor(fillRef, Or3(nodes[firstStop].stopColor,
                                        StyleMatch(nodes[firstStop].style, A_stopcolor), <<>>))
      FromGradEl(fillRef, gradEl) ==
        IF gradEl = 0 THEN fillRef ELSE FromStop(fillRef, FirstStop(nodes, gradEl))
      FromId(fillRef, id) ==
        IF id = <<>> THEN fillRef ELSE FromGradEl(fillRef, GetElementById(nodes, id))
  IN FromId(nodes[i].fill, UrlId(nodes[i].fill))

\* The switch of walk reading the d attribute of any other tag.
ShapeToPath_AnyD(el, tag) ==
  CASE tag = T_path -> el.d
    [] tag = T_rect -> RectToPath(el)
    [] tag = T_circle -> CircleToPath(el)
    [] tag = T_ellipse -> EllipseToPath(el)
    [] tag = T_line -> LineToPath(el)
    [] tag = T_polygon -> PolygonToPath(el)
    [] tag = T_polyline -> PolylineToPath(el)
    [] OTHER -> el.d

\* The switch of walk: the element's path d string.
ShapeToPath(el, tag) ==
  CASE tag = T_path -> el.d
    [] tag = T_rect -> RectToPath(el)
    [] tag = T_circle -> CircleToPath(el)
    [] tag = T_ellipse -> EllipseToPath(el)
    [] tag = T_line -> LineToPath(el)
    [] tag = T_polygon -> PolygonToPath(el)
    [] tag = T_polyline -> PolylineToPath(el)
    [] OTHER -> NullD

\* colorSet.add(c): a Set keeps insertion order
SetAdd(set, c) == IF \E i \in 1..Len(set) : set[i] = c THEN set ELSE Append(set, c)

GradientWarning(tag) == [kind |-> "gradient", tag |-> tag, color |-> <<>>]

\* The tags walk returns on before looking at the node.
IsSkippedTag(tag) ==
  tag \in {T_lineargradient, T_radialgradient, T_defs, T_clippath, T_mask}

\* The tags walk descends into.
IsContainerTag(tag) == tag \in {T_g, T_svg}

\* walk(node, parentMatrix, parentFill, parentStroke) on element i, and the
\* loop over the children ks of a container; acc holds elements, colorSet and
\* warnings.  An element records the index of its node in `node`.
RECURSIVE Walk(_, _, _, _, _, _), WalkChildren(_, _, _, _, _, _)

\* The end of walk: the two colorSet.add and elements.push of element e.
PushElement(acc, e) ==
  LET AddColor(set, c) == IF c # <<>> THEN SetAdd(set, c) ELSE set
  IN [acc EXCEPT !.colors = AddColor(AddColor(@, e.fill), e.stroke),
                 !.elements = Append(@, e)]

\* walk from the switch on, for a node that is not a container: d is the
\* switch's result, fillAttr the node's fill attribute after the gradient
\* block, acc1 the accumulator after it.
WalkLeaf(node, i, d, fillAttr, matrix, nodeFill, nodeStroke, acc1) ==
  IF d.kind = "null" THEN acc1
  ELSE PushElement(acc1, [d |-> d,
                          fill |-> GetElementColor(node, fillAttr, A_fill, nodeFill),
                          stroke |-> GetElementColor(node, fillAttr, A_stroke, nodeStroke),
                          strokeWidth |-> NumAttr(node.strokeWidth, Unit),
                          transform |-> matrix, node |-> i])

\* walk from the tag tests on: matrix, nodeFill, nodeStroke and tag are the
\* constants the function has computed by then.
WalkTag(nodes, i, tag, isRef, matrix, nodeFill, nodeStroke, acc) ==
  IF IsSkippedTag(tag) THEN acc
  ELSE IF IsContainerTag(tag)
  THEN WalkChildren(nodes, Children(nodes, i), matrix, nodeFill, nodeStroke,
                    IF isRef THEN [acc EXCEPT !.warnings = Append(@, GradientWarning(tag))]
                    ELSE acc)
  ELSE WalkLeaf(nodes[i], i, ShapeToPath(nodes[i], tag),
                IF isRef THEN GradientFill(nodes, i) ELSE nodes[i].fill,
                matrix, nodeFill, nodeStroke,
                IF isRef THEN [acc EXCEPT !.warnings = Append(@, GradientWarning(tag))]
                ELSE acc)

Walk(nodes, i, parentMatrix, parentFill, parentStroke, acc) ==
  WalkTag(nodes, i, ToLowerCase(nodes[i].tag),
          nodes[i].fill # <<>> /\ StartsWith(nodes[i].fill, S_urlOpen),
          Multiply(parentMatrix, ParseTransform(nodes[i].transform)),
          Or3(nodes[i].fill, StyleMatch(nodes[i].style, A_fill), parentFill),
          Or3(nodes[i].stroke, StyleMatch(nodes[i].style, A_stroke), parentStroke),
          acc)

WalkChildren(nodes, ks, matrix, nodeFill, nodeStroke, acc) ==
  IF ks = <<>> THEN acc
  ELSE WalkChildren(nodes, Tail(ks), matrix, nodeFill, nodeStroke,
                    Walk(nodes, Head(ks), matrix, nodeFill, nodeStroke, acc))

\* The viewBox of parseSvg: the attribute's four numbers, or (0, 0, width,
\* height) with 100 for an absent width or height.
ParseViewBox(svg) ==
  IF svg.viewBox # <<>>
  THEN <<svg.viewBox[1], svg.viewBox[2], svg.viewBox[3], svg.viewBox[4]>>
  ELSE <<0, 0, NumAttr(svg.width, 100 * Unit), NumAttr(svg.height, 100 * Unit)>>

\* doc.querySelector("svg"): the first <svg> element in document order, 0 for
\* null.  The document is XML, so the name matches in lower case only.
QuerySelectorSvg(nodes) == FirstOf({j \in 1..Len(nodes) : nodes[j].tag = T_svg})

\* The object parseSvg returns once walk(svgEl, IDENTITY) has filled w.
Parsed(svg, w) ==
  [threw |-> FALSE, viewBox |-> ParseViewBox(svg), elements |-> w.elements,
   colors |-> w.colors, warnings |-> w.warnings]

\* parseSvg without the check for a missing <svg> element.
ParseSvg_NoThrow(svg) ==
  [threw |-> FALSE, viewBox |-> <<0, 0, 100 * Unit, 100 * Unit>>, elements |-> <<>>,
   colors |-> <<>>, warnings |-> <<>>]

\* parseSvg: threw is TRUE when no <svg> element is found.  svg.viewBox,
\* svg.width and svg.height are the attributes of that element.
ParseSvg(svg) ==
  IF QuerySelectorSvg(svg.nodes) = 0
  THEN [threw |-> TRUE, viewBox |-> <<>>, elements |-> <<>>, colors |-> <<>>, warnings |-> <<>>]
  ELSE Parsed(svg, Walk(svg.nodes, QuerySelectorSvg(svg.nodes), IDENTITY, <<>>, <<>>,
                        [elements |-> <<>>, colors |-> <<>>, warnings |-> <<>>]))

\* -------------------------------------------------------------------------
\* The path converter (convertPaths) and the bounds (renderFills)
\* -------------------------------------------------------------------------

\* Castle coordinate space is +-10 units
CASTLE_HALF_SIZE == 10

\* Default tolerance in Castle units for cubic-to-quadratic approximation
DEFAULT_TOLERANCE == 50

\* FILL_PIXELS_PER_UNIT = 25.6, Unit-scaled
FILL_PIXELS_PER_UNIT == 25600

\* viewBoxToCastleTransform scaling by the shorter dimension
ViewBoxToCastleTransform_ShorterDimension(viewBox) ==
  LET vx == viewBox[1]
      vy == viewBox[2]
      vw == viewBox[3]
      vh == viewBox[4]
      scale == FDiv(CASTLE_HALF_SIZE * 2 * Unit, Min(vw, vh))
  IN [scale |-> scale,
      offsetX |-> -FMul(vx, scale) - Div(FMul(vw, scale), 2),
      offsetY |-> -FMul(vy, scale) - Div(FMul(vh, scale), 2)]

\* Compute the transform from SVG viewBox coordinates to Castle's +-10 grid.
ViewBoxToCastleTransform(viewBox) ==
  LET vx == viewBox[1]
      vy == viewBox[2]
      vw == viewBox[3]
      vh == viewBox[4]
      scale == FDiv(CASTLE_HALF_SIZE * 2 * Unit, Max(vw, vh))
  IN [scale |-> scale,
      offsetX |-> -FMul(vx, scale) - Div(FMul(vw, scale), 2),
      offsetY |-> -FMul(vy, scale) - Div(FMul(vh, scale), 2)]

\* Transform an SVG point through element matrix + viewBox->Castle mapping
ToCastle(svgX, svgY, elementMatrix, vbTransform) ==
  LET t == TransformPoint(elementMatrix, svgX, svgY)
  IN << FMul(t[1], vbTransform.scale) + vbTransform.offsetX,
        FMul(t[2], vbTransform.scale) + vbTransform.offsetY >>

\* A pass of convertElement: the colour array (<<>> for undefined) and isFill.
\* tag names the segment's origin for the ordering properties: the node of
\* its leaf and the index of its command; the code does not read it.
StraightSegment(x1, y1, x2, y2, color, isFill, tag) ==
  [p |-> <<x1, y1, x2, y2>>, s |-> 1, bp |-> <<>>, f |-> isFill, c |-> color,
   node |-> tag[1], cmd |-> tag[2]]

QuadSegment(x1, y1, x2, y2, bp, color, isFill, tag) ==
  [p |-> <<x1, y1, x2, y2>>, s |-> 1, bp |-> bp, f |-> isFill, c |-> color,
   node |-> tag[1], cmd |-> tag[2]]

\* k/1000 of a number, as in 0.125 * x0
Frac(k, x) == Div(k * x, 1000)

\* cubicToQuadratic taking the mean of the two control points as the bend
\* point, and never splitting.
CubicToQuadratic_MeanControl(x0, y0, x1, y1, x2, y2, x3, y3, tolerance, color, isFill, depth, tag) ==
  <<QuadSegment(x0, y0, x3, y3, <<Div(x1 + x2, 2), Div(y1 + y2, 2)>>, color, isFill, tag)>>

\* Approximate a cubic bezier with quadratic segments.
RECURSIVE CubicToQuadratic(_, _, _, _, _, _, _, _, _, _, _, _, _)
CubicToQuadratic(x0, y0, x1, y1, x2, y2, x3, y3, tolerance, color, isFill, depth, tag) ==
  LET qx == Div(3 * x1 - x0 + 3 * x2 - x3, 4)
      qy == Div(3 * y1 - y0 + 3 * y2 - y3, 4)
      cx == Frac(125, x0) + Frac(375, x1) + Frac(375, x2) + Frac(125, x3)
      cy == Frac(125, y0) + Frac(375, y1) + Frac(375, y2) + Frac(125, y3)
      qmx == Frac(250, x0) + Frac(500, qx) + Frac(250, x3)
      qmy == Frac(250, y0) + Frac(500, qy) + Frac(250, y3)
      error == ISqrt((cx - qmx) * (cx - qmx) + (cy - qmy) * (cy - qmy))
      m01x == Div(x0 + x1, 2)
      m01y == Div(y0 + y1, 2)
      m12x == Div(x1 + x2, 2)
      m12y == Div(y1 + y2, 2)
      m23x == Div(x2 + x3, 2)
      m23y == Div(y2 + y3, 2)
      m012x == Div(m01x + m12x, 2)
      m012y == Div(m01y + m12y, 2)
      m123x == Div(m12x + m23x, 2)
      m123y == Div(m12y + m23y, 2)
      mx == Div(m012x + m123x, 2)
      my == Div(m012y + m123y, 2)
  IN IF error <= tolerance \/ depth > 8
     THEN <<QuadSegment(x0, y0, x3, y3, <<qx, qy>>, color, isFill, tag)>>
     ELSE CubicToQuadratic(x0, y0, m01x, m01y, m012x, m012y, mx, my, tolerance, color, isFill, depth + 1, tag)
          \o CubicToQuadratic(mx, my, m123x, m123y, m23x, m23y, x3, y3, tolerance, color, isFill, depth + 1, tag)

\* Approximate an elliptical arc with quadratic bezier segments, in four
\* steps on a record a of the function's variables.  Lengths are
\* Unit-scaled, cosPhi and sinPhi are in millionths, angles in whole
\* degrees.
\* Step 1: compute (x1', y1').
ArcPrime(x0, y0, rx, ry, cosPhi, sinPhi, largeArcFlag, sweepFlag, x, y) ==
  [x0 |-> x0, y0 |-> y0, x |-> x, y |-> y, rx |-> rx, ry |-> ry,
   cosPhi |-> cosPhi, sinPhi |-> sinPhi,
   largeArcFlag |-> largeArcFlag, sweepFlag |-> sweepFlag,
   x1p |-> MulMicro(Div(x0 - x, 2), cosPhi) + MulMicro(Div(y0 - y, 2), sinPhi),
   y1p |-> MulMicro(Div(y0 - y, 2), cosPhi) - MulMicro(Div(x0 - x, 2), sinPhi)]

\* lambda = x1p^2 / rx^2 + y1p^2 / ry^2
ArcLambda(a) ==
  FDiv(FMul(a.x1p, a.x1p), FMul(a.rx, a.rx)) + FDiv(FMul(a.y1p, a.y1p), FMul(a.ry, a.ry))

\* Correct out-of-range radii.
ArcRadii(a) ==
  IF ArcLambda(a) > Unit
  THEN [a EXCEPT !.rx = FMul(@, ISqrt(ArcLambda(a) * Unit)),
                 !.ry = FMul(@, ISqrt(ArcLambda(a) * Unit))]
  ELSE a

\* Step 2: compute (cx', cy') from sq.
ArcCentre(a, sq) ==
  [cxp |-> FMul(a.rx, FDiv(FMul(sq, a.y1p), a.ry)),
   cyp |-> -FMul(a.ry, FDiv(FMul(sq, a.x1p), a.rx))]

\* The two corrections of dTheta by the sweep flag.
ArcSweep(sweepFlag, dTheta) ==
  IF ~sweepFlag /\ dTheta > 0 THEN dTheta - 360
  ELSE IF sweepFlag /\ dTheta < 0 THEN dTheta + 360
  ELSE dTheta

\* Step 3: compute (cx, cy), and step 4: compute theta1 and dTheta from the
\* vectors u = (ux, uy) and v = (vx, vy) of the code's two angle calls.
ArcAngles(a, c, ux, uy, vx, vy) ==
  [cx |-> MulMicro(c.cxp, a.cosPhi) - MulMicro(c.cyp, a.sinPhi) + Div(a.x0 + a.x, 2),
   cy |-> MulMicro(c.cxp, a.sinPhi) + MulMicro(c.cyp, a.cosPhi) + Div(a.y0 + a.y, 2),
   theta1 |-> Atan2Deg(uy, ux),
   dTheta |-> ArcSweep(a.sweepFlag,
                       Atan2Deg(FMul(ux, vy) - FMul(uy, vx), FMul(ux, vx) + FMul(uy, vy)))]

\* The loop over the segments from i on; t1 and t2 are in tenths of a degree.
RECURSIVE ArcSegments(_, _, _, _, _, _, _, _)
ArcSegments(a, g, i, curX, curY, color, isFill, tag) ==
  LET numSegments == Max(1, (Abs(g.dTheta) + 89) \div 90)
      t1 == 10 * g.theta1 + Div(10 * i * g.dTheta, numSegments)
      t2 == 10 * g.theta1 + Div(10 * (i + 1) * g.dTheta, numSegments)
      midAngle == Div(t1 + t2, 2)
      cosHalf == SinTenth(Div(t2 - t1, 2) + 900)
      ex == MulMicro(MulMicro(a.rx, SinTenth(t2 + 900)), a.cosPhi)
            - MulMicro(MulMicro(a.ry, SinTenth(t2)), a.sinPhi) + g.cx
      ey == MulMicro(MulMicro(a.rx, SinTenth(t2 + 900)), a.sinPhi)
            + MulMicro(MulMicro(a.ry, SinTenth(t2)), a.cosPhi) + g.cy
      qcx == MulMicro(MulMicro(a.rx, DivMicro(SinTenth(midAngle + 900), cosHalf)), a.cosPhi)
             - MulMicro(MulMicro(a.ry, DivMicro(SinTenth(midAngle), cosHalf)), a.sinPhi) + g.cx
      qcy == MulMicro(MulMicro(a.rx, DivMicro(SinTenth(midAngle + 900), cosHalf)), a.sinPhi)
             + MulMicro(MulMicro(a.ry, DivMicro(SinTenth(midAngle), cosHalf)), a.cosPhi) + g.cy
  IN IF i >= numSegments THEN <<>>
     ELSE <<QuadSegment(curX, curY, ex, ey, <<qcx, qcy>>, color, isFill, tag)>>
          \o ArcSegments(a, g, i + 1, ex, ey, color, isFill, tag)

\* arcToQuadratic once the centre c is known.
ArcFromCentre(a, c, color, isFill, tag) ==
  ArcSegments(a, ArcAngles(a, c, FDiv(a.x1p - c.cxp, a.rx), FDiv(a.y1p - c.cyp, a.ry),
                                 FDiv(-a.x1p - c.cxp, a.rx), FDiv(-a.y1p - c.cyp, a.ry)),
              0, a.x0, a.y0, color, isFill, tag)

\* arcToQuadratic after the radii are corrected.  num / den of the code is
\* (1 - lambda) / lambda for the corrected radii, num clamped at 0, and sq
\* its square root, negated when the two flags agree.  When the end point is
\* the start point den is 0, sq is infinite and the centre, the angles and
\* numSegments are NaN: the loop does not run.
ArcFromRadii(a, color, isFill, tag) ==
  IF a.x1p = 0 /\ a.y1p = 0 THEN <<>>
  ELSE ArcFromCentre(a,
         ArcCentre(a, IF a.largeArcFlag = a.sweepFlag
                      THEN -ISqrt(FDiv(Max(0, Unit - ArcLambda(a)), ArcLambda(a)) * Unit)
                      ELSE ISqrt(FDiv(Max(0, Unit - ArcLambda(a)), ArcLambda(a)) * Unit)),
         color, isFill, tag)

ArcToQuadratic(x0, y0, rx, ry, xAxisRotation, largeArcFlag, sweepFlag, x, y, color, isFill, tag) ==
  IF rx = 0 \/ ry = 0 THEN <<StraightSegment(x0, y0, x, y, color, isFill, tag)>>
  ELSE ArcFromRadii(ArcRadii(ArcPrime(x0, y0, Abs(rx), Abs(ry),
                                      SinDegMicro(xAxisRotation + 90), SinDegMicro(xAxisRotation),
                                      largeArcFlag, sweepFlag, x, y)),
                    color, isFill, tag)

\* The CLOSE_PATH case with the segment pushed whatever the distance.
ClosePath_AlwaysSegment(st, color, isFill, tag) ==
  [st EXCEPT !.segments = st.segments
                            \o <<StraightSegment(st.curX, st.curY, st.startX, st.startY, color, isFill, tag)>>,
             !.curX = st.startX, !.curY = st.startY]

\* The CLOSE_PATH case of the switch of convertElement; 0.001 is 1.
ClosePath(st, color, isFill, tag) ==
  [st EXCEPT !.segments =
               IF Abs(st.curX - st.startX) > 1 \/ Abs(st.curY - st.startY) > 1
               THEN st.segments
                      \o <<StraightSegment(st.curX, st.curY, st.startX, st.startY, color, isFill, tag)>>
               ELSE st.segments,
             !.curX = st.startX, !.curY = st.startY]

\* One command of the switch of convertElement, applied to the pass state
\* st = [curX, curY, startX, startY, segments].
ConvertCommand(cmd, st, transform, vb, tolerance, color, isFill, tag) ==
  LET n == ToCastle(cmd.x, cmd.y, transform, vb)
      c1 == ToCastle(cmd.x1, cmd.y1, transform, vb)
      c2 == ToCastle(cmd.x2, cmd.y2, transform, vb)
      hn == ToCastle(cmd.x, FDiv(st.curY, vb.scale) - FDiv(vb.offsetY, vb.scale), transform, vb)
      vn == ToCastle(FDiv(st.curX, vb.scale) - FDiv(vb.offsetX, vb.scale), cmd.y, transform, vb)
      push(segs) == st.segments \o segs
  IN CASE cmd.type = "M" ->
            [curX |-> n[1], curY |-> n[2], startX |-> n[1], startY |-> n[2], segments |-> st.segments]
       [] cmd.type = "L" ->
            [st EXCEPT !.segments = push(<<StraightSegment(st.curX, st.curY, n[1], n[2], color, isFill, tag)>>),
                       !.curX = n[1], !.curY = n[2]]
       [] cmd.type = "H" ->
            [st EXCEPT !.segments = push(<<StraightSegment(st.curX, st.curY, hn[1], st.curY, color, isFill, tag)>>),
                       !.curX = hn[1]]
       [] cmd.type = "V" ->
            [st EXCEPT !.segments = push(<<StraightSegment(st.curX, st.curY, st.curX, vn[2], color, isFill, tag)>>),
                       !.curY = vn[2]]
       [] cmd.type = "Q" ->
            [st EXCEPT !.segments = push(<<QuadSegment(st.curX, st.curY, n[1], n[2], c1, color, isFill, tag)>>),
                       !.curX = n[1], !.curY = n[2]]
       [] cmd.type = "C" ->
            [st EXCEPT !.segments = push(CubicToQuadratic(st.curX, st.curY, c1[1], c1[2], c2[1], c2[2],
                                                          n[1], n[2], tolerance, color, isFill, 0, tag)),
                       !.curX = n[1], !.curY = n[2]]
       [] cmd.type = "Z" -> ClosePath(st, color, isFill, tag)
       [] cmd.type = "S" ->
            [st EXCEPT !.segments = push(CubicToQuadratic(st.curX, st.curY, st.curX, st.curY, c2[1], c2[2],
                                                          n[1], n[2], tolerance, color, isFill, 0, tag)),
                       !.curX = n[1], !.curY = n[2]]
       [] cmd.type = "T" ->
            [st EXCEPT !.segments = push(<<StraightSegment(st.curX, st.curY, n[1], n[2], color, isFill, tag)>>),
                       !.curX = n[1], !.curY = n[2]]
       [] cmd.type = "A" ->
            [st EXCEPT !.segments = push(ArcToQuadratic(st.curX, st.curY,
                                                        FMul(cmd.rX, vb.scale), FMul(cmd.rY, vb.scale),
                                                        cmd.xRot, cmd.lArcFlag = 1, cmd.sweepFlag = 1,
                                                        n[1], n[2], color, isFill, tag)),
                       !.curX = n[1], !.curY = n[2]]
       [] OTHER -> st

\* The inner loop of convertElement over the commands from index k on.
RECURSIVE ConvertCommands(_, _, _, _, _, _, _, _, _)
ConvertCommands(cmds, k, st, transform, vb, tolerance, color, isFill, node) ==
  IF k > Len(cmds) THEN st
  ELSE ConvertCommands(cmds, k + 1,
         ConvertCommand(cmds[k], st, transform, vb, tolerance, color, isFill, <<node, k>>),
         transform, vb, tolerance, color, isFill, node)

\* The colour array [c.r, c.g, c.b, c.a] of a mapping
ColorArray(mapping) ==
  <<mapping.castleColor.r, mapping.castleColor.g, mapping.castleColor.b, mapping.castleColor.a>>

\* colorSets with the stroke set taking the fill's colour.
ColorSets_StrokeAsFill(element, colorMap) ==
  LET hasFill == element.fill # <<>> /\ MapHas(colorMap, element.fill)
      hasStroke == element.stroke # <<>> /\ MapHas(colorMap, element.stroke)
      fillSet == IF hasFill
                 THEN <<[color |-> ColorArray(MapGet(colorMap, element.fill)), isFill |-> TRUE]>>
                 ELSE <<>>
      strokeSet == IF hasStroke
                   THEN <<[color |-> ColorArray(MapGet(colorMap, IF hasFill THEN element.fill ELSE element.stroke)),
                           isFill |-> FALSE]>>
                   ELSE <<>>
  IN IF fillSet \o strokeSet = <<>> THEN <<[color |-> <<>>, isFill |-> FALSE]>>
     ELSE fillSet \o strokeSet

\* The colorSets of convertElement: fill first, then stroke; the default
\* set when neither is mapped.
ColorSets(element, colorMap) ==
  LET hasFill == element.fill # <<>> /\ MapHas(colorMap, element.fill)
      hasStroke == element.stroke # <<>> /\ MapHas(colorMap, element.stroke)
      fillSet == IF hasFill
                 THEN <<[color |-> ColorArray(MapGet(colorMap, element.fill)), isFill |-> TRUE]>>
                 ELSE <<>>
      strokeSet == IF hasStroke
                   THEN <<[color |-> ColorArray(MapGet(colorMap, element.stroke)), isFill |-> FALSE]>>
                   ELSE <<>>
  IN IF fillSet \o strokeSet = <<>> THEN <<[color |-> <<>>, isFill |-> FALSE]>>
     ELSE fillSet \o strokeSet

\* The outer loop of convertElement over the colour sets.
RECURSIVE ConvertPasses(_, _, _, _, _, _)
ConvertPasses(sets, element, vb, tolerance, segments, cmds) ==
  IF sets = <<>> THEN segments
  ELSE ConvertPasses(Tail(sets), element, vb, tolerance,
         ConvertCommands(cmds, 1,
           [curX |-> 0, curY |-> 0, startX |-> 0, startY |-> 0, segments |-> segments],
           element.transform, vb, tolerance, Head(sets).color, Head(sets).isFill,
           element.node).segments,
         cmds)

\* convertElement whose catch block emits a degenerate segment at the origin
\* instead of returning the empty list.
ConvertElement_BadAsPoint(element, viewBox, colorMap, tolerance) ==
  ConvertPasses(ColorSets(element, colorMap), element,
                ViewBoxToCastleTransform(viewBox), tolerance, <<>>,
                IF element.d.kind = "bad" THEN <<CmdM(0, 0), CmdL(0, 0)>> ELSE element.d.cmds)

\* Convert a single parsed SVG element to Castle path segments.
ConvertElement(element, viewBox, colorMap, tolerance) ==
  IF element.d.kind = "bad" THEN <<>>
  ELSE ConvertPasses(ColorSets(element, colorMap), element,
                     ViewBoxToCastleTransform(viewBox), tolerance, <<>>, element.d.cmds)

\* convertAllPaths putting each element's segments in front of the list.
RECURSIVE ConvertAllPaths_Prepend(_, _, _, _)
ConvertAllPaths_Prepend(elements, viewBox, colorMap, tolerance) ==
  IF elements = <<>> THEN <<>>
  ELSE ConvertAllPaths_Prepend(Tail(elements), viewBox, colorMap, tolerance)
       \o ConvertElement(Head(elements), viewBox, colorMap, tolerance)

\* Convert all parsed SVG elements to Castle path segments.
RECURSIVE ConvertAllPaths(_, _, _, _)
ConvertAllPaths(elements, viewBox, colorMap, tolerance) ==
  IF elements = <<>> THEN <<>>
  ELSE ConvertElement(Head(elements), viewBox, colorMap, tolerance)
       \o ConvertAllPaths(Tail(elements), viewBox, colorMap, tolerance)

\* The margin of computeBounds, 0.1
Margin == 100

\* The x coordinates computeBounds would scan if it read only the first end
\* point of every segment.
SegXs_StartOnly(pathDataList) == {pathDataList[i].p[1] : i \in 1..Len(pathDataList)}

\* The coordinates computeBounds scans: x at even, y at odd indices of p.
SegXs(pathDataList) == {pathDataList[i].p[j] : i \in 1..Len(pathDataList), j \in {1, 3}}

SegYs(pathDataList) == {pathDataList[i].p[j] : i \in 1..Len(pathDataList), j \in {2, 4}}

SetMin(S) == CHOOSE x \in S : \A y \in S : x <= y

SetMax(S) == CHOOSE x \in S : \A y \in S : x >= y

\* computeBounds adding the margin on the low sides only.
ComputeBounds_LowMargin(pathDataList) ==
  IF pathDataList = <<>>
  THEN [minX |-> -10 * Unit, maxX |-> 10 * Unit, minY |-> -10 * Unit, maxY |-> 10 * Unit]
  ELSE [minX |-> SetMin(SegXs(pathDataList)) - Margin,
        maxX |-> SetMax(SegXs(pathDataList)),
        minY |-> SetMin(SegYs(pathDataList)) - Margin,
        maxY |-> SetMax(SegYs(pathDataList))]

\* Compute the bounding box of all Castle path segments.
ComputeBounds(pathDataList) ==
  IF pathDataList = <<>>
  THEN [minX |-> -10 * Unit, maxX |-> 10 * Unit, minY |-> -10 * Unit, maxY |-> 10 * Unit]
  ELSE [minX |-> SetMin(SegXs(pathDataList)) - Margin,
        maxX |-> SetMax(SegXs(pathDataList)) + Margin,
        minY |-> SetMin(SegYs(pathDataList)) - Margin,
        maxY |-> SetMax(SegYs(pathDataList)) + Margin]

\* -------------------------------------------------------------------------
\* The assembler (buildCastleDrawData) and the raster fill (renderFillPng)
\* -------------------------------------------------------------------------

\* The pixel size renderFillPng asks for.
FillWidth(bounds) == Ceil(FMul(bounds.maxX - bounds.minX, FILL_PIXELS_PER_UNIT))

FillHeight(bounds) == Ceil(FMul(bounds.maxY - bounds.minY, FILL_PIXELS_PER_UNIT))

\* renderFillPng returns "" before it touches the canvas.
FillIsEmpty(bounds) == FillWidth(bounds) <= 0 \/ FillHeight(bounds) <= 0

\* The body of the data URL canvas.toDataURL("image/png") gives.
PngBody == <<"i","V","B","O","R","w","0","K","G","g","o","=">>

\* dataUrl.split(",")[1] || ""
Base64Of(body) == IF body # <<>> THEN body ELSE EmptyStr

HighDeltaEWarning(mapping) == [kind |-> "highDeltaE", tag |-> <<>>, color |-> mapping.original]

StrokeWidthWarning == [kind |-> "strokeWidths", tag |-> <<>>, color |-> <<>>]

FillPngWarning == [kind |-> "fillPng", tag |-> <<>>, color |-> <<>>]

\* The warnings for mappings with deltaE > 15, in map order.
RECURSIVE HighDeltaEWarnings(_)
HighDeltaEWarnings(map) ==
  IF map = <<>> THEN <<>>
  ELSE (IF Head(map).deltaE > 15 * LabUnit THEN <<HighDeltaEWarning(Head(map))>> ELSE <<>>)
       \o HighDeltaEWarnings(Tail(map))

\* The set strokeWidths taken over the elements with a fill or a stroke.
StrokeWidths_FillOrStroke(elements) ==
  {elements[i].strokeWidth :
     i \in {j \in 1..Len(elements) : elements[j].fill # <<>> \/ elements[j].stroke # <<>>}}

\* The set strokeWidths of buildCastleDrawData.
StrokeWidths(elements) ==
  {elements[i].strokeWidth : i \in {j \in 1..Len(elements) : elements[j].stroke # <<>>}}

StrokeWidthWarnings(elements) ==
  IF Cardinality(StrokeWidths(elements)) > 1 THEN <<StrokeWidthWarning>> ELSE <<>>

\* Step 5 of buildCastleDrawData.
DrawData(paletteCastle, id, segments, fillBounds, png) ==
  [version |-> 3, scale |-> 10, gridSize |-> 714, fillPixelsPerUnit |-> FILL_PIXELS_PER_UNIT,
   colors |-> paletteCastle,
   layers |-> << [title |-> "Imported", id |-> id, isVisible |-> TRUE, isBitmap |-> FALSE,
                  frames |-> << [isLinked |-> FALSE, pathDataList |-> segments,
                                 fillImageBounds |-> fillBounds, fillPng |-> png] >>] >>]

\* What uuidv4() may return.
LayerIds == {"uuid-a", "uuid-b"}

\* -------------------------------------------------------------------------
\* State
\* -------------------------------------------------------------------------

VARIABLES
  svg,          \* the SVG string of the call, as the document DOMParser gives
  palette,      \* [hex, castle]: the paletteHex and paletteCastle arguments
  tolerance,    \* the tolerance argument
  pc,           \* where the call is: "idle", "awaitImage", "resolved", "rejected"
  parsed,       \* the ParsedSvg
  colorMap,     \* the colour mapping
  pathDataList, \* the converted segments
  bounds,       \* the fill bounds
  warnings,     \* the warnings so far
  raster,       \* the rasterizer: calls of renderFillPng, canvas size, outcome
  result,       \* what the promise settled with
  calls,        \* the calls that settled before this one: their arguments and results
  cHex,         \* mapColorToPalette: the hex argument
  cPalette,     \* mapColorToPalette: the palette argument
  cResult,      \* mapColorToPalette: the result
  lab1,         \* deltaE: first argument
  lab2,         \* deltaE: second argument
  dE,           \* deltaE: <<deltaE(lab1, lab2), deltaE(lab2, lab1), deltaE(lab1, lab1)>>
  cubic,        \* cubicToQuadratic: x0, y0, x1, y1, x2, y2, x3, y3
  quads,        \* cubicToQuadratic: the segments returned, <<>> before the call
  called,       \* a call of one of the other exported functions: [fn, args]
  returned,     \* what that call returned: [done, value]
  home          \* the home screen: its React state and the generate attempt in flight

buildVars == <<svg, palette, tolerance, pc, parsed, colorMap, pathDataList, bounds, warnings, raster, result,
               calls>>

colorVars == <<cHex, cPalette, cResult, lab1, lab2, dE>>

cubicVars == <<cubic, quads>>

pureVars == <<called, returned>>

homeVars == <<home>>

vars == <<svg, palette, tolerance, pc, parsed, colorMap, pathDataList, bounds, warnings, raster, result, calls,
          cHex, cPalette, cResult, lab1, lab2, dE, cubic, quads, called, returned, home>>

NoParsed == [threw |-> FALSE, viewBox |-> <<>>, elements |-> <<>>, colors |-> <<>>, warnings |-> <<>>]

NoBounds == [minX |-> 0, maxX |-> 0, minY |-> 0, maxY |-> 0]

NoRaster == [calls |-> 0, width |-> 0, height |-> 0, outcome |-> "none"]

NoResult == [kind |-> "none", drawData |-> <<>>, colorMappings |-> <<>>, warnings |-> <<>>]

\* The state of a call that has not started.
BuildIdle ==
  /\ pc = "idle"
  /\ parsed = NoParsed
  /\ colorMap = <<>>
  /\ pathDataList = <<>>
  /\ bounds = NoBounds
  /\ warnings = <<>>
  /\ raster = NoRaster
  /\ result = NoResult
  /\ calls = <<>>

\* No call of another exported function on its own.
NoCall == [fn |-> "", args |-> <<>>]

NoReturn == [done |-> FALSE, value |-> <<>>]

PureIdle ==
  /\ called = NoCall
  /\ returned = NoReturn

\* The home screen is not mounted.
HomeIdle == home = <<>>

\* No call of cubicToQuadratic on its own.
CubicIdle ==
  /\ cubic = <<0, 0, 0, 0, 0, 0, 0, 0>>
  /\ quads = <<>>

ColorIdle ==
  /\ cHex = <<>>
  /\ cPalette = <<>>
  /\ cResult = [index |-> 0, deltaE |-> 0, done |-> FALSE]
  /\ lab1 = <<0, 0, 0>>
  /\ lab2 = <<0, 0, 0>>
  /\ dE = <<>>

\* The promise resolving with a warnings list that lives on between calls:
\* the warnings of the call before are still in it.
Resolved_KeepWarnings(png, id, ws) ==
  [kind |-> "ok",
   drawData |-> DrawData(palette.castle, id, pathDataList, bounds, png),
   colorMappings |-> colorMap,
   warnings |-> (IF calls = <<>> THEN <<>> ELSE calls[Len(calls)].result.warnings) \o ws]

\* The promise of buildCastleDrawData resolves.
Resolved(png, id, ws) ==
  [kind |-> "ok",
   drawData |-> DrawData(palette.castle, id, pathDataList, bounds, png),
   colorMappings |-> colorMap,
   warnings |-> ws]

\* buildCastleDrawData up to its await: parseSvg (which may throw),
\* buildColorMap, convertAllPaths, the warnings, computeBounds and the
\* synchronous part of renderFillPng, which returns "" for an empty pixel
\* rectangle, throws when the canvas gives no 2d context (or the platform has
\* no document), and otherwise hands the recoloured SVG to an Image and waits.
Build ==
  /\ pc = "idle"
  /\ IF ParseSvg(svg).threw
     THEN /\ pc' = "rejected"
          /\ result' = [NoResult EXCEPT !.kind = "error"]
          /\ UNCHANGED <<parsed, colorMap, pathDataList, bounds, warnings, raster>>
     ELSE /\ parsed' = ParseSvg(svg)
          /\ colorMap' = BuildColorMap(parsed'.colors, palette.hex, palette.castle)
          /\ pathDataList' = ConvertAllPaths(parsed'.elements, parsed'.viewBox, colorMap', tolerance)
          /\ bounds' = ComputeBounds(pathDataList')
          /\ \/ /\ FillIsEmpty(bounds')
                /\ raster' = [calls |-> raster.calls + 1, width |-> 0, height |-> 0, outcome |-> "empty"]
                /\ warnings' = parsed'.warnings \o HighDeltaEWarnings(colorMap')
                                  \o StrokeWidthWarnings(parsed'.elements)
                /\ pc' = "resolved"
                /\ \E id \in LayerIds :
                     result' = [kind |-> "ok",
                                drawData |-> DrawData(palette.castle, id, pathDataList', bounds', EmptyStr),
                                colorMappings |-> colorMap', warnings |-> warnings']
             \/ /\ ~FillIsEmpty(bounds')
                /\ raster' = [calls |-> raster.calls + 1, width |-> FillWidth(bounds'),
                              height |-> FillHeight(bounds'), outcome |-> "threw"]
                /\ warnings' = Append(parsed'.warnings \o HighDeltaEWarnings(colorMap')
                                         \o StrokeWidthWarnings(parsed'.elements), FillPngWarning)
                /\ pc' = "resolved"
                /\ \E id \in LayerIds :
                     result' = [kind |-> "ok",
                                drawData |-> DrawData(palette.castle, id, pathDataList', bounds', EmptyStr),
                                colorMappings |-> colorMap', warnings |-> warnings']
             \/ /\ ~FillIsEmpty(bounds')
                /\ raster' = [calls |-> raster.calls + 1, width |-> FillWidth(bounds'),
                              height |-> FillHeight(bounds'), outcome |-> "pending"]
                /\ warnings' = parsed'.warnings \o HighDeltaEWarnings(colorMap')
                                  \o StrokeWidthWarnings(parsed'.elements)
                /\ pc' = "awaitImage"
                /\ result' = result
  /\ UNCHANGED <<svg, palette, tolerance, calls>>
  /\ UNCHANGED colorVars
  /\ UNCHANGED cubicVars
  /\ UNCHANGED pureVars
  /\ UNCHANGED homeVars

\* img.onload: the canvas is drawn and read back; the await resumes and the
\* document is assembled.
ImgOnLoad ==
  /\ pc = "awaitImage"
  /\ raster' = [raster EXCEPT !.outcome = "loaded"]
  /\ pc' = "resolved"
  /\ \E id \in LayerIds : result' = Resolved(Base64Of(PngBody), id, warnings)
  /\ UNCHANGED <<svg, palette, tolerance, parsed, colorMap, pathDataList, bounds, warnings, calls>>
  /\ UNCHANGED colorVars
  /\ UNCHANGED cubicVars
  /\ UNCHANGED pureVars
  /\ UNCHANGED homeVars

\* img.onerror: the promise resolves with "".
ImgOnError ==
  /\ pc = "awaitImage"
  /\ raster' = [raster EXCEPT !.outcome = "error"]
  /\ pc' = "resolved"
  /\ \E id \in LayerIds : result' = Resolved(EmptyStr, id, warnings)
  /\ UNCHANGED <<svg, palette, tolerance, parsed, colorMap, pathDataList, bounds, warnings, calls>>
  /\ UNCHANGED colorVars
  /\ UNCHANGED cubicVars
  /\ UNCHANGED pureVars
  /\ UNCHANGED homeVars

\* -------------------------------------------------------------------------
\* Input documents
\* -------------------------------------------------------------------------

U(n) == n * Unit

\* An element with no attributes.
Node(tag, depth) ==
  [tag |-> tag, depth |-> depth, id |-> <<>>, fill |-> <<>>, stroke |-> <<>>, style |-> <<>>,
   transform |-> <<>>, strokeWidth |-> <<>>, stopColor |-> <<>>,
   x |-> <<>>, y |-> <<>>, width |-> <<>>, height |-> <<>>, rx |-> <<>>, ry |-> <<>>,
   cx |-> <<>>, cy |-> <<>>, r |-> <<>>, x1 |-> <<>>, y1 |-> <<>>, x2 |-> <<>>, y2 |-> <<>>,
   points |-> <<>>, d |-> NullD]

RectNode(depth, x, y, w, h) ==
  [Node(T_rect, depth) EXCEPT !.x = <<x>>, !.y = <<y>>, !.width = <<w>>, !.height = <<h>>]

C_red == <<"#","f","f","0","0","0","0">>

C_green == <<"#","0","0","f","f","0","0">>

C_blue == <<"#","0","0","0","0","f","f">>

C_yellow == <<"#","f","f","f","f","0","0">>

C_grey == <<"#","8","0","8","0","8","0">>

S_none == <<"n","o","n","e">>

S_redName == <<"r","e","d">>

S_fillBlue == <<"f","i","l","l",":","#","0","0","0","0","f","f">>

\* <rect x="0" y="0" width="10" height="10" fill="#ff0000"/>
I_RectFull == << [RectNode(1, 0, 0, U(10), U(10)) EXCEPT !.fill = C_red] >>

\* <rect x="0" y="0" width="5" height="5" fill="#00ff00" stroke="#000000" stroke-width="2"/>
I_RectBoth ==
  << [RectNode(1, 0, 0, U(5), U(5)) EXCEPT !.fill = C_green, !.stroke = BLACK, !.strokeWidth = <<U(2)>>] >>

\* <path fill="none" d="M2,2 H8 V8 Q5,9 2,8 Z"/>
I_PathNone ==
  << [Node(T_path, 1) EXCEPT !.fill = S_none,
        !.d = PathD(<<CmdM(U(2), U(2)), CmdH(U(8)), CmdV(U(8)), CmdQ(U(5), U(9), U(2), U(8)), CmdZ>>)] >>

\* <path style="fill:#0000ff" stroke="red" d="M1,1 C3,0 6,0 9,1 L5,9 Z"/>
I_PathCubic ==
  << [Node(T_path, 1) EXCEPT !.style = S_fillBlue, !.stroke = S_redName,
        !.d = PathD(<<CmdM(U(1), U(1)), CmdC(U(3), 0, U(6), 0, U(9), U(1)), CmdL(U(5), U(9)), CmdZ>>)] >>

\* <g transform="translate(5,5)" fill="#ffff00"><line x2="5" y2="5"/></g>
I_Group ==
  << [Node(T_g, 1) EXCEPT !.fill = C_yellow, !.transform = <<[type |-> "translate", args |-> <<U(5), U(5)>>]>>],
     [Node(T_line, 2) EXCEPT !.x2 = <<U(5)>>, !.y2 = <<U(5)>>] >>

\* <defs><rect width="4" height="4" fill="#ff0000"/></defs>
I_Defs == << Node(T_defs, 1), [RectNode(2, 0, 0, U(4), U(4)) EXCEPT !.fill = C_red] >>

\* <path fill="#808080" d="not a path"/>
I_BadPath == << [Node(T_path, 1) EXCEPT !.fill = C_grey, !.d = BadD] >>

\* <polygon points="0,0 10,0 5,10" fill="#ff0000"/>
I_Polygon ==
  << [Node(T_polygon, 1) EXCEPT !.fill = C_red, !.points = <<0, 0, U(10), 0, U(5), U(10)>>] >>

\* <circle cx="5" cy="5" r="3" fill="#0000ff" stroke="#ff0000"/>
I_Circle ==
  << [Node(T_circle, 1) EXCEPT !.cx = <<U(5)>>, !.cy = <<U(5)>>, !.r = <<U(3)>>,
        !.fill = C_blue, !.stroke = C_red] >>

BuildItems ==
  {I_RectFull, I_RectBoth, I_PathNone, I_PathCubic, I_Group, I_Defs, I_BadPath, I_Polygon, I_Circle}

\* The most items in the body of a document.
MaxItems == 2

RECURSIVE Flatten(_)
Flatten(items) == IF items = <<>> THEN <<>> ELSE Head(items) \o Flatten(Tail(items))

\* The bodies of at most n items from the set items.
Bodies(items, n) == UNION {[1..k -> items] : k \in 0..n}

\* <svg viewBox=...> around a body
SvgDoc(viewBox, width, height, body) ==
  [viewBox |-> viewBox, width |-> width, height |-> height,
   nodes |-> <<Node(T_svg, 0)>> \o Flatten(body)]

\* Documents without an <svg> element: an empty document and a lone <rect>.
NoSvgDocs ==
  { [viewBox |-> <<>>, width |-> <<>>, height |-> <<>>, nodes |-> <<>>],
    [viewBox |-> <<>>, width |-> <<>>, height |-> <<>>, nodes |-> <<RectNode(0, 0, 0, U(4), U(4))>>] }

\* The viewBox most documents carry, and two more: a wide one and one with a
\* negative origin.
SquareViewBoxAttr == <<0, 0, U(10), U(10)>>

OtherViewBoxes == { <<0, 0, U(20), U(10)>>, <<-U(5), -U(5), U(10), U(10)>> }

\* <rect x="0" y="0" width="10" height="10" fill="#ff0000" stroke-width="3"/>
I_RectThick == << [RectNode(1, 0, 0, U(10), U(10)) EXCEPT !.fill = C_red, !.strokeWidth = <<U(3)>>] >>

\* <path fill="none" stroke="#0000ff" d="M0,5 C0,9 8,1 8,5"/>: a cubic that
\* swings to both sides of its chord.
I_PathS ==
  << [Node(T_path, 1) EXCEPT !.fill = S_none, !.stroke = C_blue,
        !.d = PathD(<<CmdM(0, U(5)), CmdC(0, U(9), U(8), U(1), U(8), U(5))>>)] >>

\* <path transform="matrix(0 1 -1 0 10 0)" fill="none" stroke="#ff0000"
\*       d="M2,2 H8 V8 L2,8"/>: a path turned by a quarter.
I_PathTurned ==
  << [Node(T_path, 1) EXCEPT !.fill = S_none, !.stroke = C_red,
        !.transform = <<[type |-> "matrix", args |-> <<0, U(1), -U(1), 0, U(10), 0>>]>>,
        !.d = PathD(<<CmdM(U(2), U(2)), CmdH(U(8)), CmdV(U(8)), CmdL(U(2), U(8))>>)] >>

\* <g transform="scale(2)"><path transform="translate(1,1)" fill="none"
\*    stroke="#ff0000" d="M1,1 H3 V3"/></g>: a path scaled and moved.
I_PathScaled ==
  << [Node(T_g, 1) EXCEPT !.transform = <<[type |-> "scale", args |-> <<U(2)>>]>>],
     [Node(T_path, 2) EXCEPT !.fill = S_none, !.stroke = C_red,
        !.transform = <<[type |-> "translate", args |-> <<U(1), U(1)>>]>>,
        !.d = PathD(<<CmdM(U(1), U(1)), CmdH(U(3)), CmdV(U(3))>>)] >>

\* <path fill="none" stroke="#ff0000" d="M2,5 A3,3 0 1 1 2,5 L8,5"/>: an arc
\* that ends where it starts, with the large-arc flag set.
I_PathRing ==
  << [Node(T_path, 1) EXCEPT !.fill = S_none, !.stroke = C_red,
        !.d = PathD(<<CmdM(U(2), U(5)), CmdA(U(3), U(3), 0, 1, 1, U(2), U(5)),
                      CmdL(U(8), U(5))>>)] >>

\* <path fill="#ff0000" stroke="#0000ff" d="M2,2 L8,2 L8,8 Z L5,9 Z"/>:
\* closed twice, with a line after the first Z.
I_PathClosed ==
  << [Node(T_path, 1) EXCEPT !.fill = C_red, !.stroke = C_blue,
        !.d = PathD(<<CmdM(U(2), U(2)), CmdL(U(8), U(2)), CmdL(U(8), U(8)), CmdZ,
                      CmdL(U(5), U(9)), CmdZ>>)] >>

\* <path fill="#ff0000" d="M2,2 L8,2 L2,2 Z Q5,9 8,8"/>: closed from the
\* start point itself.
I_PathBack ==
  << [Node(T_path, 1) EXCEPT !.fill = C_red,
        !.d = PathD(<<CmdM(U(2), U(2)), CmdL(U(8), U(2)), CmdL(U(2), U(2)), CmdZ,
                      CmdQ(U(5), U(9), U(8), U(8))>>)] >>

S_overRed == <<"r","g","b","(","3","0","0",",","0",",","0",")">>

\* <path fill="rgb(300,0,0)" d="M2,2 L8,2"/>: a channel above 255
I_PathOverRed ==
  << [Node(T_path, 1) EXCEPT !.fill = S_overRed,
        !.d = PathD(<<CmdM(U(2), U(2)), CmdL(U(8), U(2))>>)] >>

\* <path fill="#ff0000" stroke="rgb(300,0,0)" d="M2,2 L8,2"/>
I_PathOverRedStroke ==
  << [Node(T_path, 1) EXCEPT !.fill = C_red, !.stroke = S_overRed,
        !.d = PathD(<<CmdM(U(2), U(2)), CmdL(U(8), U(2))>>)] >>

\* <path transform="scale(0.5)" fill="none" stroke="#ff0000"
\*       d="M4,10 A6,6 0 0 1 16,10 L16,4"/>: a half circle, halved.
I_ArcHalved ==
  << [Node(T_path, 1) EXCEPT !.fill = S_none, !.stroke = C_red,
        !.transform = <<[type |-> "scale", args |-> <<500>>]>>,
        !.d = PathD(<<CmdM(U(4), U(10)), CmdA(U(6), U(6), 0, 0, 1, U(16), U(10)),
                      CmdL(U(16), U(4))>>)] >>

\* <path transform="scale(2)" fill="none" stroke="#ff0000"
\*       d="M1,3 A5,5 0 0 1 4,3 L4,1"/>: a flat arc, doubled.
I_ArcDoubled ==
  << [Node(T_path, 1) EXCEPT !.fill = S_none, !.stroke = C_red,
        !.transform = <<[type |-> "scale", args |-> <<U(2)>>]>>,
        !.d = PathD(<<CmdM(U(1), U(3)), CmdA(U(5), U(5), 0, 0, 1, U(4), U(3)),
                      CmdL(U(4), U(1))>>)] >>

\* Bodies of documents with the square viewBox besides those of BuildItems.
MoreBodies ==
  { <<I_RectFull, I_RectThick>>, <<I_PathS>>, <<I_PathTurned>>, <<I_PathScaled>>,
    <<I_PathRing>>,
    <<I_PathClosed>>, <<I_PathBack>>,
    <<I_PathOverRed>>, <<I_PathOverRedStroke>>,
    <<I_ArcHalved>>, <<I_ArcDoubled>> }

\* <path fill="#ff0000" d="M2,2 L8,2 L2.001,2.001 Z L8,8"/>: closed from
\* a thousandth away in both axes.
I_PathNear ==
  << [Node(T_path, 1) EXCEPT !.fill = C_red,
        !.d = PathD(<<CmdM(U(2), U(2)), CmdL(U(8), U(2)), CmdL(U(2) + 1, U(2) + 1), CmdZ,
                      CmdL(U(8), U(8))>>)] >>

\* <path fill="#ff0000" d="M2,2 L8,2 L2,2.002 Z"/>: closed from two
\* thousandths away in one axis.
I_PathNotNear ==
  << [Node(T_path, 1) EXCEPT !.fill = C_red,
        !.d = PathD(<<CmdM(U(2), U(2)), CmdL(U(8), U(2)), CmdL(U(2), U(2) + 2), CmdZ>>)] >>

\* <rect x="2" y="2" width="5" height="0.001" fill="#ff0000" stroke="#0000ff"/>
I_RectThin ==
  << [RectNode(1, U(2), U(2), U(5), 1) EXCEPT !.fill = C_red, !.stroke = C_blue] >>

\* Bodies of documents with the viewBox 0 0 20 20, whose scale is 1.
UnitScaleBodies == { <<I_PathNear>>, <<I_PathNotNear>>, <<I_RectThin>> }

BuildDocs ==
  {SvgDoc(SquareViewBoxAttr, <<>>, <<>>, body) : body \in Bodies(BuildItems, MaxItems)}
    \cup {SvgDoc(SquareViewBoxAttr, <<>>, <<>>, body) : body \in MoreBodies}
    \cup {SvgDoc(<<0, 0, U(20), U(20)>>, <<>>, <<>>, body) : body \in UnitScaleBodies}
    \cup {SvgDoc(vb, <<>>, <<>>, body) : vb \in OtherViewBoxes, body \in Bodies(BuildItems, 1)}
    \cup {SvgDoc(<<>>, <<U(20)>>, <<>>, body) : body \in Bodies(BuildItems, 1)}
    \cup NoSvgDocs

AAP_64 == [hex |-> AAP_64_HEX, castle |-> AAP_64_CASTLE]

Init ==
  /\ svg \in BuildDocs
  /\ palette = AAP_64
  /\ tolerance = DEFAULT_TOLERANCE
  /\ BuildIdle
  /\ CubicIdle
  /\ PureIdle
  /\ HomeIdle
  /\ ColorIdle

Next == Build \/ ImgOnLoad \/ ImgOnError

Spec == Init /\ [][Next]_vars

\* -------------------------------------------------------------------------
\* Properties of the build
\* -------------------------------------------------------------------------

Range(s) == {s[i] : i \in 1..Len(s)}

\* The single frame of the returned document.
Frame == result.drawData.layers[1].frames[1]

Returned == pc = "resolved" /\ result.kind = "ok"

FallbackBounds == [minX |-> -10 * Unit, maxX |-> 10 * Unit, minY |-> -10 * Unit, maxY |-> 10 * Unit]

\* C1: when the rasterizer fails, by the canvas giving no context or by the
\* image failing to load, the build still returns a document, its fillPng is
\* the empty string and the rasterizer warning is in the returned warnings.
C1_RasterFailureWarned ==
  (pc = "resolved" /\ raster.outcome \in {"threw", "error"})
    => /\ result.kind = "ok"
       /\ Frame.fillPng = EmptyStr
       /\ FillPngWarning \in Range(result.warnings)

\* The root <svg> has an empty body or only <defs> children.
NoDrawableLeaves ==
  LET root == QuerySelectorSvg(svg.nodes)
      kids == Children(svg.nodes, root)
  IN root # 0 /\ \A k \in 1..Len(kids) : svg.nodes[kids[k]].tag = T_defs

\* C2: for a document with no drawable leaves the build returns zero
\* segments, the bounds (-10, 10, -10, 10) and the empty string as fillPng,
\* whatever the rasterizer does.
C2_EmptyDocumentEmptyFill ==
  (pc = "resolved" /\ NoDrawableLeaves)
    => /\ result.kind = "ok"
       /\ Frame.pathDataList = <<>>
       /\ Frame.fillImageBounds = FallbackBounds
       /\ Frame.fillPng = EmptyStr

\* C3: without an <svg> element the build fails with the one error: it
\* returns no document, no mapping and no warnings, and renderFillPng is
\* never called.
C3_NoSvgFails ==
  (QuerySelectorSvg(svg.nodes) = 0 /\ pc # "idle")
    => /\ pc = "rejected"
       /\ result = [kind |-> "error", drawData |-> <<>>, colorMappings |-> <<>>, warnings |-> <<>>]
       /\ raster.calls = 0
       /\ raster.outcome = "none"

C3_Witness == pc = "rejected" /\ QuerySelectorSvg(svg.nodes) = 0 /\ svg.nodes # <<>>

\* C4: segments of an earlier leaf come before those of a later leaf; within
\* a leaf and a pass they follow the command order; and a leaf's fill-pass
\* segments (f true) come before its stroke-pass segments (f false).
C4_SegmentOrder ==
  Returned =>
    \A i, j \in 1..Len(Frame.pathDataList) :
      i < j =>
        LET a == Frame.pathDataList[i]
            b == Frame.pathDataList[j]
        IN /\ a.node <= b.node
           /\ (a.node = b.node /\ a.f = b.f) => a.cmd <= b.cmd
           /\ a.node = b.node => ~(a.f = FALSE /\ b.f = TRUE)

C4_Witness ==
  /\ Returned
  /\ \E i, j \in 1..Len(Frame.pathDataList) :
       Frame.pathDataList[i].node < Frame.pathDataList[j].node
  /\ \E i, j \in 1..Len(Frame.pathDataList) :
       /\ Frame.pathDataList[i].node = Frame.pathDataList[j].node
       /\ Frame.pathDataList[i].f /\ ~Frame.pathDataList[j].f
       /\ Frame.pathDataList[i].cmd < Frame.pathDataList[j].cmd

\* The segments of the leaf that came from node n.
SegmentsOf(n) == SelectSeq(Frame.pathDataList, LAMBDA s : s.node = n)

\* The palette colour array of a mapped colour.
PaletteColor(hex) ==
  LET c == palette.castle[MapGet(result.colorMappings, hex).paletteIndex + 1]
  IN <<c.r, c.g, c.b, c.a>>

IsMapped(hex) == hex # <<>> /\ MapHas(result.colorMappings, hex)

TwoPassLeaf(e) ==
  LET segs == SegmentsOf(e.node)
      n == Len(segs) \div 2
  IN /\ Len(segs) = 2 * n
     /\ \A k \in 1..n :
          /\ segs[k].f = TRUE /\ segs[k].c = PaletteColor(e.fill)
          /\ segs[n + k].f = FALSE /\ segs[n + k].c = PaletteColor(e.stroke)
          /\ segs[k].p = segs[n + k].p
          /\ segs[k].bp = segs[n + k].bp

OnePassLeaf(e) ==
  LET segs == SegmentsOf(e.node)
  IN /\ \A k \in 1..Len(segs) : segs[k].c = <<>> /\ segs[k].f = FALSE
     /\ \A k, m \in 1..Len(segs) :
          k < m => /\ segs[k].cmd <= segs[m].cmd
                   /\ ~(segs[k].cmd = segs[m].cmd /\ segs[k].p = segs[m].p)

SquareViewBox == parsed.viewBox # <<>> /\ parsed.viewBox[3] = parsed.viewBox[4]

SymmetricBounds(b) == b.minX = -b.maxX /\ b.minY = -b.maxY

\* C10: with a viewBox of aspect ratio 1:1 the returned bounds are symmetric
\* about the origin, whatever the leaves.
C10_SquareViewBoxSymmetric ==
  (Returned /\ SquareViewBox) => SymmetricBounds(Frame.fillImageBounds)

\* The corners of the viewBox.
Corners(vb) ==
  { <<vb[1], vb[2]>>, <<vb[1] + vb[3], vb[2]>>, <<vb[1], vb[2] + vb[4]>>, <<vb[1] + vb[3], vb[2] + vb[4]>> }

\* The element's outline runs through every corner of the viewBox: each
\* corner is the end of an L command or the M in front of one.
CoversViewBox(e, vb) ==
  /\ e.d.kind = "cmds"
  /\ \A corner \in Corners(vb) :
       \E k \in 1..Len(e.d.cmds) :
         /\ \/ e.d.cmds[k].type = "L"
            \/ e.d.cmds[k].type = "M" /\ k < Len(e.d.cmds) /\ e.d.cmds[k + 1].type = "L"
         /\ TransformPoint(e.transform, e.d.cmds[k].x, e.d.cmds[k].y) = corner

\* No segment end lies outside the drawing square.
InsideSquare(segments) ==
  \A i \in 1..Len(segments) : \A k \in 1..4 : Abs(segments[i].p[k]) <= CASTLE_HALF_SIZE * Unit

SpansViewBox ==
  /\ \E i \in 1..Len(parsed.elements) : CoversViewBox(parsed.elements[i], parsed.viewBox)
  /\ InsideSquare(Frame.pathDataList)

\* C10, amended: with a viewBox of aspect ratio 1:1 the returned bounds are
\* symmetric about the origin when no segment is emitted, or when a leaf's
\* outline runs through the four corners of the viewBox and no segment end
\* lies outside the drawing square.
C10_SpanningLeavesSymmetric ==
  (Returned /\ SquareViewBox /\ (Frame.pathDataList = <<>> \/ SpansViewBox))
    => SymmetricBounds(Frame.fillImageBounds)

C10_Witness ==
  /\ Returned /\ SquareViewBox /\ SpansViewBox
  /\ Len(parsed.elements) > 1
  /\ Frame.fillImageBounds.maxX = CASTLE_HALF_SIZE * Unit + Margin
  /\ Frame.fillImageBounds.minY = -(CASTLE_HALF_SIZE * Unit + Margin)

\* -------------------------------------------------------------------------
\* parseSvg on its own
\* -------------------------------------------------------------------------

T_clipPath == <<"c","l","i","p","P","a","t","h">>

T_linearGradient == <<"l","i","n","e","a","r","G","r","a","d","i","e","n","t">>

T_radialGradient == <<"r","a","d","i","a","l","G","r","a","d","i","e","n","t">>

T_text == <<"t","e","x","t">>

T_glyph == <<"g","l","y","p","h">>

S_urlG == <<"u","r","l","(","#","g",")">>

S_idG == <<"g">>

Triangle == PathD(<<CmdM(U(1), U(1)), CmdL(U(9), U(1)), CmdL(U(5), U(9)), CmdZ>>)

\* <circle cx="5" cy="5" r="3" fill="#ff0000"/>
P_Circle == << [Node(T_circle, 1) EXCEPT !.cx = <<U(5)>>, !.cy = <<U(5)>>, !.r = <<U(3)>>, !.fill = C_red] >>

\* <ellipse cx="5" cy="5" rx="4" ry="2"/>
P_Ellipse == << [Node(T_ellipse, 1) EXCEPT !.cx = <<U(5)>>, !.cy = <<U(5)>>, !.rx = <<U(4)>>, !.ry = <<U(2)>>] >>

\* <rect x="1" y="1" width="8" height="8" rx="2" stroke="#0000ff"/>
P_RoundRect == << [RectNode(1, U(1), U(1), U(8), U(8)) EXCEPT !.rx = <<U(2)>>, !.stroke = C_blue] >>

\* <polyline points="0,0 5,5 10,0" fill="none" stroke="#000000"/>
P_Polyline ==
  << [Node(T_polyline, 1) EXCEPT !.points = <<0, 0, U(5), U(5), U(10), 0>>, !.fill = S_none, !.stroke = BLACK] >>

\* <clipPath><rect width="4" height="4"/></clipPath>
P_ClipPath == << Node(T_clipPath, 1), RectNode(2, 0, 0, U(4), U(4)) >>

\* <mask><circle r="3"/></mask>
P_Mask == << Node(T_mask, 1), [Node(T_circle, 2) EXCEPT !.r = <<U(3)>>] >>

\* <linearGradient id="g"><stop stop-color="#00ff00"/></linearGradient>
P_LinearGradient ==
  << [Node(T_linearGradient, 1) EXCEPT !.id = S_idG], [Node(T_stop, 2) EXCEPT !.stopColor = C_green] >>

\* <radialGradient><stop style="stop-color:red"/><path d="M1,1 L9,1 L5,9 Z"/></radialGradient>
P_RadialGradient ==
  << Node(T_radialGradient, 1), Node(T_stop, 2), [Node(T_path, 2) EXCEPT !.d = Triangle] >>

\* <defs><g><path d="M1,1 L9,1 L5,9 Z"/></g></defs>
P_DefsDeep == << Node(T_defs, 1), Node(T_g, 2), [Node(T_path, 3) EXCEPT !.d = Triangle] >>

\* <g stroke="#808080"><g><rect width="4" height="4"/></g><clipPath><rect width="2" height="2"/></clipPath></g>
P_GroupNest ==
  << [Node(T_g, 1) EXCEPT !.stroke = C_grey], Node(T_g, 2), RectNode(3, 0, 0, U(4), U(4)),
     Node(T_clipPath, 2), RectNode(3, 0, 0, U(2), U(2)) >>

\* <svg><line x2="5" y2="5"/></svg>
P_InnerSvg == << Node(T_svg, 1), [Node(T_line, 2) EXCEPT !.x2 = <<U(5)>>, !.y2 = <<U(5)>>] >>

\* <text fill="#ff0000"/><glyph d="M1,1 L9,1 L5,9 Z"/>
P_Text == << [Node(T_text, 1) EXCEPT !.fill = C_red], [Node(T_glyph, 1) EXCEPT !.d = Triangle] >>

\* <rect width="4" height="4" fill="url(#g)"/>
P_GradientRect == << [RectNode(1, 0, 0, U(4), U(4)) EXCEPT !.fill = S_urlG] >>

\* <path fill="#ff0000"/><rect width="0" height="4"/>
P_Empty == << [Node(T_path, 1) EXCEPT !.fill = C_red], RectNode(1, 0, 0, 0, U(4)) >>

ParseItems ==
  {P_Circle, P_Ellipse, P_RoundRect, P_Polyline, P_ClipPath, P_Mask, P_LinearGradient, P_RadialGradient,
   P_DefsDeep, P_GroupNest, P_InnerSvg, P_Text, P_GradientRect, P_Empty, I_PathCubic, I_Polygon}

\* The most items in the body of a document given to parseSvg alone.
MaxParseItems == 2

\* viewBox attributes, among them ones with a zero or negative size
ParseViewBoxes ==
  { <<0, 0, U(10), U(10)>>, <<0, 0, 0, U(10)>>, <<0, 0, U(10), 0>>, <<0, 0, 0, 0>>,
    <<0, 0, -U(10), -U(10)>>, <<U(1), U(2), U(30), -U(5)>> }

\* width and height attributes: absent, positive, zero, negative
ParseSizes == { <<>>, <<U(20)>>, <<0>>, <<-U(5)>> }

S_urlH == <<"u","r","l","(","#","h",")">>

S_stopRed == <<"s","t","o","p","-","c","o","l","o","r",":"," ","r","e","d">>

\* <g fill="url(#g)"><rect width="4" height="4"/><g><circle r="3"/></g><rect width="2" height="2" fill="#0000ff"/></g>
P_GradientGroup ==
  << [Node(T_g, 1) EXCEPT !.fill = S_urlG], RectNode(2, 0, 0, U(4), U(4)),
     Node(T_g, 2), [Node(T_circle, 3) EXCEPT !.r = <<U(3)>>],
     [RectNode(2, 0, 0, U(2), U(2)) EXCEPT !.fill = C_blue] >>

\* <radialGradient id="g"><stop style="stop-color: red"/><stop stop-color="#0000ff"/></radialGradient>
P_StyleGradient ==
  << [Node(T_radialGradient, 1) EXCEPT !.id = S_idG], [Node(T_stop, 2) EXCEPT !.style = S_stopRed],
     [Node(T_stop, 2) EXCEPT !.stopColor = C_blue] >>

\* <rect width="4" height="4" fill="url(#h)"/><g fill="url(#h)"><line x2="5" y2="5"/></g>
P_MissingGradient ==
  << [RectNode(1, 0, 0, U(4), U(4)) EXCEPT !.fill = S_urlH],
     [Node(T_g, 1) EXCEPT !.fill = S_urlH], [Node(T_line, 2) EXCEPT !.x2 = <<U(5)>>, !.y2 = <<U(5)>>] >>

\* <g fill="#ff0000" style="fill:#0000ff"><rect width="4" height="4"/></g>
P_StyledGroup ==
  << [Node(T_g, 1) EXCEPT !.fill = C_red, !.style = S_fillBlue], RectNode(2, 0, 0, U(4), U(4)) >>

\* <rect width="4" height="4" fill="#ff0000" style="fill:#0000ff" stroke="#808080"/>
P_StyledLeaf ==
  << [RectNode(1, 0, 0, U(4), U(4)) EXCEPT !.fill = C_red, !.style = S_fillBlue, !.stroke = C_grey] >>

\* <g fill="#ffff00" stroke="#808080"><g style="fill:#0000ff"><rect width="4" height="4"/></g>
\*   <rect width="2" height="2" stroke="#0000ff"/><g><circle r="3" fill="none"/></g></g>
P_NestedPaint ==
  << [Node(T_g, 1) EXCEPT !.fill = C_yellow, !.stroke = C_grey],
     [Node(T_g, 2) EXCEPT !.style = S_fillBlue], RectNode(3, 0, 0, U(4), U(4)),
     [RectNode(2, 0, 0, U(2), U(2)) EXCEPT !.stroke = C_blue],
     Node(T_g, 2), [Node(T_circle, 3) EXCEPT !.r = <<U(3)>>, !.fill = S_none] >>

\* Bodies of documents given to parseSvg besides those of ParseItems.
MoreParseBodies ==
  { <<P_LinearGradient, P_GradientGroup>>, <<P_GradientGroup, P_LinearGradient>>,
    <<P_StyleGradient, P_GradientRect>>, <<P_StyleGradient, P_GradientGroup>>,
    <<P_MissingGradient>>, <<P_LinearGradient, P_MissingGradient, P_GradientRect>>,
    <<P_StyledGroup>>, <<P_StyledLeaf>>, <<P_NestedPaint>> }

ParseDocs ==
  {SvgDoc(<<0, 0, U(10), U(10)>>, <<>>, <<>>, body) : body \in Bodies(ParseItems, MaxParseItems)}
    \cup {SvgDoc(<<0, 0, U(10), U(10)>>, <<>>, <<>>, body) : body \in MoreParseBodies}
    \cup {SvgDoc(vb, <<U(20)>>, <<>>, <<I_RectFull>>) : vb \in ParseViewBoxes}
    \cup {SvgDoc(<<>>, w, h, <<I_RectFull>>) : w \in ParseSizes, h \in ParseSizes}
    \cup NoSvgDocs

InitParse ==
  /\ svg \in ParseDocs
  /\ palette = AAP_64
  /\ tolerance = DEFAULT_TOLERANCE
  /\ BuildIdle
  /\ CubicIdle
  /\ PureIdle
  /\ HomeIdle
  /\ ColorIdle

\* A call of parseSvg.
Parse ==
  /\ pc = "idle"
  /\ IF ParseSvg(svg).threw
     THEN pc' = "rejected" /\ parsed' = parsed
     ELSE pc' = "parsed" /\ parsed' = ParseSvg(svg)
  /\ UNCHANGED <<svg, palette, tolerance, colorMap, pathDataList, bounds, warnings, raster, result, calls>>
  /\ UNCHANGED colorVars
  /\ UNCHANGED cubicVars
  /\ UNCHANGED pureVars
  /\ UNCHANGED homeVars

NextParse == Parse

SpecParse == InitParse /\ [][NextParse]_vars

LeafTags == {T_path, T_rect, T_circle, T_ellipse, T_line, T_polygon, T_polyline}

DefinitionTags == {T_defs, T_clippath, T_mask, T_lineargradient, T_radialgradient}

\* The nodes whose subtree holds node i, and i itself.
AncestorsOrSelf(nodes, i) == {j \in 1..i : j = i \/ i \in Descendants(nodes, j)}

\* C6: every emitted leaf comes from a path, rect, circle, ellipse, line,
\* polygon or polyline node (so never from g or svg), and never from a node
\* that is, or lies below, a defs, clipPath, mask, linearGradient or
\* radialGradient node.
C6_LeavesOnly ==
  pc = "parsed" =>
    \A i \in 1..Len(parsed.elements) :
      LET n == parsed.elements[i].node
      IN /\ ToLowerCase(svg.nodes[n].tag) \in LeafTags
         /\ \A j \in AncestorsOrSelf(svg.nodes, n) :
              ToLowerCase(svg.nodes[j].tag) \notin DefinitionTags

C6_Witness ==
  /\ pc = "parsed"
  /\ Len(parsed.elements) = 1
  /\ \E j \in 1..Len(svg.nodes) : svg.nodes[j].tag = T_clipPath
  /\ \E j \in 1..Len(svg.nodes) : svg.nodes[j].tag = T_g
  /\ Cardinality({j \in 1..Len(svg.nodes) : svg.nodes[j].tag = T_rect}) = 2

\* C9: the parsed viewBox has a strictly positive width and height for
\* every input with an <svg> element.
C9_ViewBoxPositive ==
  pc = "parsed" => parsed.viewBox[3] > 0 /\ parsed.viewBox[4] > 0

\* -------------------------------------------------------------------------
\* mapColorToPalette and deltaE on their own
\* -------------------------------------------------------------------------

\* A hex string whose red channel does not parse.
C_badHex == <<"#","g","g","0","0","0","0">>

MapInputs == {C_red, C_yellow, C_blue, C_grey, BLACK, AAP_64_HEX[7], C_badHex}

PaletteColors == {C_red, C_grey, BLACK, AAP_64_HEX[7], AAP_64_HEX[40]}

\* The most entries in a palette given to mapColorToPalette alone.
MaxPalette == 3

Palettes == UNION {[1..k -> PaletteColors] : k \in 1..MaxPalette}

InitPalette ==
  /\ svg \in {[viewBox |-> <<>>, width |-> <<>>, height |-> <<>>, nodes |-> <<>>]}
  /\ palette = AAP_64
  /\ tolerance = DEFAULT_TOLERANCE
  /\ BuildIdle
  /\ CubicIdle
  /\ PureIdle
  /\ HomeIdle
  /\ cHex \in MapInputs
  /\ cPalette \in Palettes
  /\ cResult = [index |-> 0, deltaE |-> 0, done |-> FALSE]
  /\ lab1 = <<0, 0, 0>>
  /\ lab2 = <<0, 0, 0>>
  /\ dE = <<>>

\* A call of mapColorToPalette.
MapColor ==
  /\ ~cResult.done
  /\ cPalette # <<>>
  /\ cResult' = [index |-> MapColorToPalette(cHex, cPalette).index,
                 deltaE |-> MapColorToPalette(cHex, cPalette).deltaE,
                 done |-> TRUE]
  /\ UNCHANGED <<cHex, cPalette, lab1, lab2, dE>>
  /\ UNCHANGED buildVars
  /\ UNCHANGED cubicVars
  /\ UNCHANGED pureVars
  /\ UNCHANGED homeVars

NextPalette == MapColor

SpecPalette == InitPalette /\ [][NextPalette]_vars

LabOf(hex) == Rgb2Lab(HexToRgb(hex)[1], HexToRgb(hex)[2], HexToRgb(hex)[3])

\* The distance from the input colour to palette slot i (1-based).
SlotDist(i) == DeltaE(LabOf(cHex), LabOf(cPalette[i]))

\* C7: the mapping picks a palette slot of minimal deltaE, the lowest such
\* slot; an input equal to a palette hex gets deltaE 0 and the first slot
\* holding that hex.
C7_NearestLowestIndex ==
  (cResult.done /\ LabOf(cHex) # <<>>) =>
    LET best == cResult.index + 1
    IN /\ best \in 1..Len(cPalette)
       /\ cResult.deltaE = SlotDist(best)
       /\ \A i \in 1..Len(cPalette) : SlotDist(best) <= SlotDist(i)
       /\ \A i \in 1..(best - 1) : SlotDist(i) > SlotDist(best)
       /\ (\E i \in 1..Len(cPalette) : cPalette[i] = cHex) =>
            /\ cResult.deltaE = 0
            /\ cPalette[best] = cHex
            /\ \A i \in 1..(best - 1) : cPalette[i] # cHex

C7_Witness ==
  /\ cResult.done
  /\ Len(cPalette) = 3
  /\ cPalette[2] = cHex /\ cPalette[3] = cHex /\ cPalette[1] # cHex
  /\ cResult.index = 1
  /\ cResult.deltaE = 0

\* The most steps of 40 units of a and b from the grey axis in the Lab grid.
MaxLabStep == 1

LabGrid ==
  {<<l * LabUnit, a * 40 * LabUnit, b * 40 * LabUnit>> :
     l \in {20, 50, 80}, a \in (-MaxLabStep)..MaxLabStep, b \in (-MaxLabStep)..MaxLabStep}

InitDeltaE ==
  /\ svg \in {[viewBox |-> <<>>, width |-> <<>>, height |-> <<>>, nodes |-> <<>>]}
  /\ palette = AAP_64
  /\ tolerance = DEFAULT_TOLERANCE
  /\ BuildIdle
  /\ CubicIdle
  /\ PureIdle
  /\ HomeIdle
  /\ cHex = <<>>
  /\ cPalette = <<>>
  /\ cResult = [index |-> 0, deltaE |-> 0, done |-> FALSE]
  /\ lab1 \in LabGrid
  /\ lab2 \in LabGrid
  /\ dE = <<>>

\* deltaE called on the two colours in both orders, and on the first with itself.
ComputeDeltaE ==
  /\ dE = <<>>
  /\ dE' = <<DeltaE(lab1, lab2), DeltaE(lab2, lab1), DeltaE(lab1, lab1)>>
  /\ UNCHANGED <<cHex, cPalette, cResult, lab1, lab2>>
  /\ UNCHANGED buildVars
  /\ UNCHANGED cubicVars
  /\ UNCHANGED pureVars
  /\ UNCHANGED homeVars

NextDeltaE == ComputeDeltaE

SpecDeltaE == InitDeltaE /\ [][NextDeltaE]_vars

\* C8: deltaE is 0 for identical inputs and symmetric in its arguments.
C8_ZeroAndSymmetric ==
  dE # <<>> => dE[3] = 0 /\ dE[1] = dE[2]

\* The squared chroma a^2 + b^2 of a Lab colour.
Chroma2(lab) == lab[2] * lab[2] + lab[3] * lab[3]

\* C8, amended: deltaE is 0 for identical inputs, and symmetric for two
\* colours of equal chroma.
C8_ZeroAndSymmetricAtEqualChroma ==
  dE # <<>> => /\ dE[3] = 0
               /\ Chroma2(lab1) = Chroma2(lab2) => dE[1] = dE[2]

C8_Witness ==
  /\ dE # <<>>
  /\ lab1 # lab2
  /\ lab1[1] # lab2[1]
  /\ Chroma2(lab1) = Chroma2(lab2)
  /\ Chroma2(lab1) > 0
  /\ lab1[2] # lab2[2]
  /\ dE[1] = dE[2]
  /\ dE[1] > 0
  /\ dE[3] = 0

\* -------------------------------------------------------------------------
\* Further properties of the build
\* -------------------------------------------------------------------------

\* The x and the y of the end points (x1, y1), (x2, y2) of the returned
\* segments.
EndXs == {Frame.pathDataList[i].p[j] : i \in 1..Len(Frame.pathDataList), j \in {1, 3}}

EndYs == {Frame.pathDataList[i].p[j] : i \in 1..Len(Frame.pathDataList), j \in {2, 4}}

\* b lies d outside the least and the greatest of the numbers S on both sides.
Widened(lo, hi, S, d) ==
  /\ lo + d \in S /\ \A v \in S : lo + d <= v
  /\ hi - d \in S /\ \A v \in S : v <= hi - d

StrokedWidths ==
  {parsed.elements[i].strokeWidth :
     i \in {j \in 1..Len(parsed.elements) : parsed.elements[j].stroke # <<>>}}

PaintedWidths ==
  {parsed.elements[i].strokeWidth :
     i \in {j \in 1..Len(parsed.elements) :
              parsed.elements[j].fill # <<>> \/ parsed.elements[j].stroke # <<>>}}

\* How many of the returned warnings are the stroke width warning.
StrokeWidthWarningCount ==
  Cardinality({k \in 1..Len(result.warnings) : result.warnings[k] = StrokeWidthWarning})

Visited(i) ==
  \A j \in AncestorsOrSelf(svg.nodes, i) : j # i => IsContainerTag(ToLowerCase(svg.nodes[j].tag))

\* Node i is a leaf or a container that walk looks at and whose fill
\* attribute is a url( reference.
GradientRef(i) ==
  /\ Visited(i)
  /\ ~IsSkippedTag(ToLowerCase(svg.nodes[i].tag))
  /\ svg.nodes[i].fill # <<>>
  /\ StartsWith(svg.nodes[i].fill, S_urlOpen)

\* The gradient node that the fill attribute of node i refers to, 0 when it
\* names none.
GradientOf(i) ==
  LET g == IF UrlId(svg.nodes[i].fill) = <<>> THEN 0
           ELSE GetElementById(svg.nodes, UrlId(svg.nodes[i].fill))
  IN IF g # 0 /\ ToLowerCase(svg.nodes[g].tag) \in {T_lineargradient, T_radialgradient}
     THEN g ELSE 0

\* The normalised stop-color of the first stop of the gradient of node i,
\* <<>> when there is no gradient, no stop or no recognised colour.
StopColour(i) ==
  LET s == IF GradientOf(i) = 0 THEN 0 ELSE FirstStop(svg.nodes, GradientOf(i))
      raw == IF s = 0 THEN <<>>
             ELSE Or3(svg.nodes[s].stopColor, StyleMatch(svg.nodes[s].style, A_stopcolor), <<>>)
  IN IF raw = <<>> THEN <<>> ELSE NormalizeColor(raw)

\* Node j says what the fill (the stroke) is, by attribute or inline style.
Specifies(j, attr) ==
  \/ (IF attr = A_fill THEN svg.nodes[j].fill ELSE svg.nodes[j].stroke) # <<>>
  \/ StyleMatch(svg.nodes[j].style, attr) # <<>>

\* The nearest node from n up to the root that specifies the paint, 0 for
\* none.
Nearest(n, attr) ==
  LET S == {j \in AncestorsOrSelf(svg.nodes, n) : Specifies(j, attr)}
  IN IF S = {} THEN 0 ELSE CHOOSE j \in S : \A k \in S : k <= j

\* Every leaf that takes its fill from node i (i itself, or a leaf below the
\* container i with no nearer fill) has the first stop's colour as fill.
GradientFillReaches(i, leaves) ==
  \A k \in 1..Len(parsed.elements) :
    (/\ parsed.elements[k].node \in leaves
     /\ Nearest(parsed.elements[k].node, A_fill) = i
     /\ StyleMatch(svg.nodes[i].style, A_fill) = <<>>)
      => parsed.elements[k].fill = StopColour(i)

GradientWarningCount ==
  Cardinality({k \in 1..Len(parsed.warnings) : parsed.warnings[k].kind = "gradient"})

\* C13: when the fill attribute of a node is url(#id) and names a gradient
\* whose first stop has a recognised colour, that colour is the fill of the
\* node: of the leaf itself, and of the leaves that inherit their fill from a
\* g or svg node; and every node with a url( fill adds one gradient warning.
C13_GradientFillSubstituted ==
  pc = "parsed" =>
    /\ \A i \in 1..Len(svg.nodes) :
         (GradientRef(i) /\ StopColour(i) # <<>>) => GradientFillReaches(i, 1..Len(svg.nodes))
    /\ GradientWarningCount = Cardinality({i \in 1..Len(svg.nodes) : GradientRef(i)})

\* The part of C13 about leaves and warnings alone.
GradientLeafFillSubstituted ==
  pc = "parsed" =>
    /\ \A i \in 1..Len(svg.nodes) :
         (GradientRef(i) /\ StopColour(i) # <<>>) => GradientFillReaches(i, {i})
    /\ GradientWarningCount = Cardinality({i \in 1..Len(svg.nodes) : GradientRef(i)})

\* A leaf with a gradient fill has been given the stop's colour, with two
\* warnings in the document.
GradientLeafSeen ==
  /\ pc = "parsed"
  /\ GradientWarningCount = 3
  /\ \E k \in 1..Len(parsed.elements) :
       /\ GradientRef(parsed.elements[k].node)
       /\ parsed.elements[k].fill = C_green

\* What node j declares for the paint: the value of the inline style
\* declaration if there is one, else the attribute.
Declared(j, attr) ==
  IF StyleMatch(svg.nodes[j].style, attr) # <<>>
  THEN Trim(StyleMatch(svg.nodes[j].style, attr))
  ELSE IF attr = A_fill THEN svg.nodes[j].fill ELSE svg.nodes[j].stroke

\* The paint of a leaf by the rule of nearest declaration, style over
\* attribute on every node; black for no fill, <<>> for no stroke.
PaintByNearest(n, attr) ==
  IF Nearest(n, attr) = 0 THEN (IF attr = A_fill THEN BLACK ELSE <<>>)
  ELSE NormalizeColor(Declared(Nearest(n, attr), attr))

\* The leaf does not take its fill from a url( reference.
PlainFill(n) == Nearest(n, A_fill) = 0 \/ ~GradientRef(Nearest(n, A_fill))

\* C14: the fill and the stroke of a leaf are those declared by the nearest
\* node from the leaf up to the root that declares them, on any one node the
\* inline style before the attribute; with no declaration the fill is
\* #000000 and there is no stroke.
C14_NearestPaintStyleFirst ==
  pc = "parsed" =>
    \A k \in 1..Len(parsed.elements) :
      /\ PlainFill(parsed.elements[k].node)
           => parsed.elements[k].fill = PaintByNearest(parsed.elements[k].node, A_fill)
      /\ parsed.elements[k].stroke = PaintByNearest(parsed.elements[k].node, A_stroke)


\* ---- Unparseable path data ----

\* The nodes of the leaves whose d string svg-pathdata throws on.
BadNodes(elements) ==
  {elements[k].node : k \in {j \in 1..Len(elements) : elements[j].d.kind = "bad"}}

\* The document without the nodes in the set bad, which are leaves.
RECURSIVE DropNodes(_, _, _)
DropNodes(nodes, i, bad) ==
  IF i > Len(nodes) THEN <<>>
  ELSE (IF i \in bad THEN <<>> ELSE <<nodes[i]>>) \o DropNodes(nodes, i + 1, bad)

WithoutBad(doc, bad) == [doc EXCEPT !.nodes = DropNodes(doc.nodes, 1, bad)]

\* The segments as emitted, without the record of the node they came from.
Emitted(segs) == [i \in 1..Len(segs) |-> [segs[i] EXCEPT !.node = 0]]

\* The segments buildCastleDrawData computes for a document.
SegmentsOfDoc(doc, pal, tol) ==
  ConvertAllPaths(ParseSvg(doc).elements, ParseSvg(doc).viewBox,
                  BuildColorMap(ParseSvg(doc).colors, pal.hex, pal.castle), tol)

\* C15: a leaf whose d string cannot be parsed contributes no segment and
\* no exception leaves the converter (a build is rejected only when parseSvg
\* throws); the segments of the document are those of the same document
\* without the bad leaves.
C15_BadLeafContributesNothing ==
  /\ pc = "rejected" => ParseSvg(svg).threw
  /\ pc \in {"awaitImage", "resolved"} =>
       /\ \A i \in 1..Len(pathDataList) : pathDataList[i].node \notin BadNodes(parsed.elements)
       /\ Emitted(pathDataList)
            = Emitted(SegmentsOfDoc(WithoutBad(svg, BadNodes(parsed.elements)), palette, tolerance))

\* A returned document of a bad leaf followed by a leaf that yields segments.
C15_Witness ==
  /\ Returned
  /\ BadNodes(parsed.elements) # {}
  /\ \E i \in 1..Len(pathDataList) : \A n \in BadNodes(parsed.elements) : pathDataList[i].node > n
  /\ Frame.pathDataList = pathDataList


\* -------------------------------------------------------------------------
\* Successive calls of buildCastleDrawData
\* -------------------------------------------------------------------------

\* The most calls that have settled before the current one.
MaxCalls == 2

\* The SVG strings of the calls: a rect with fill and stroke, a path with a
\* cubic, and a string without an <svg> element.
CallDocs ==
  { SvgDoc(SquareViewBoxAttr, <<>>, <<>>, <<I_RectBoth>>),
    SvgDoc(SquareViewBoxAttr, <<>>, <<>>, <<I_PathCubic>>),
    [viewBox |-> <<>>, width |-> <<>>, height |-> <<>>, nodes |-> <<>>] }

\* A result with the id of its layer blanked.
WithoutId(res) ==
  IF res.kind = "ok"
  THEN [res EXCEPT !.drawData.layers = <<[res.drawData.layers[1] EXCEPT !.id = ""]>>]
  ELSE res

\* The caller takes the settled result and calls again.  Everything
\* buildCastleDrawData computes is held in locals of the call, so the next
\* call starts from nothing; calls keeps what the finished one was given and
\* what it returned.
Again ==
  /\ pc \in {"resolved", "rejected"}
  /\ Len(calls) < MaxCalls
  /\ calls' = Append(calls, [svg |-> svg, palette |-> palette, tolerance |-> tolerance,
                             outcome |-> raster.outcome, result |-> WithoutId(result)])
  /\ svg' \in CallDocs
  /\ pc' = "idle"
  /\ parsed' = NoParsed
  /\ colorMap' = <<>>
  /\ pathDataList' = <<>>
  /\ bounds' = NoBounds
  /\ warnings' = <<>>
  /\ raster' = NoRaster
  /\ result' = NoResult
  /\ UNCHANGED <<palette, tolerance>>
  /\ UNCHANGED colorVars
  /\ UNCHANGED cubicVars
  /\ UNCHANGED pureVars
  /\ UNCHANGED homeVars

InitCalls ==
  /\ svg \in CallDocs
  /\ palette = AAP_64
  /\ tolerance = DEFAULT_TOLERANCE
  /\ BuildIdle
  /\ CubicIdle
  /\ PureIdle
  /\ HomeIdle
  /\ ColorIdle

NextCalls == Build \/ ImgOnLoad \/ ImgOnError \/ Again

SpecCalls == InitCalls /\ [][NextCalls]_vars

\* The earlier calls that were given what the current call was given and
\* whose rasterizer did what the current one did.
SameCalls ==
  {i \in 1..Len(calls) : /\ calls[i].svg = svg
                         /\ calls[i].palette = palette
                         /\ calls[i].tolerance = tolerance
                         /\ calls[i].outcome = raster.outcome}

ElementOf(seg) ==
  parsed.elements[CHOOSE k \in 1..Len(parsed.elements) : parsed.elements[k].node = seg.node]

CommandOf(seg) == ElementOf(seg).d.cmds[seg.cmd]

\* The segment is all its C command gave in its pass: the cubic was not split.
WholeCubic(seg) ==
  /\ CommandOf(seg).type = "C"
  /\ Cardinality({i \in 1..Len(pathDataList) :
                    /\ pathDataList[i].node = seg.node
                    /\ pathDataList[i].cmd = seg.cmd
                    /\ pathDataList[i].f = seg.f}) = 1

\* The control points of the cubic in Castle coordinates, coordinate c (1 for
\* x, 2 for y).
Control1(seg, c) ==
  ToCastle(CommandOf(seg).x1, CommandOf(seg).y1, ElementOf(seg).transform,
           ViewBoxToCastleTransform(parsed.viewBox))[c]

Control2(seg, c) ==
  ToCastle(CommandOf(seg).x2, CommandOf(seg).y2, ElementOf(seg).transform,
           ViewBoxToCastleTransform(parsed.viewBox))[c]

\* The point of the cubic at t = 1/4 and at t = 3/4.
CubicAtQuarter(seg, c) ==
  Div(27 * seg.p[c] + 27 * Control1(seg, c) + 9 * Control2(seg, c) + seg.p[c + 2], 64)

CubicAtThreeQuarters(seg, c) ==
  Div(seg.p[c] + 9 * Control1(seg, c) + 27 * Control2(seg, c) + 27 * seg.p[c + 2], 64)

\* How far the coordinate v lies outside the span of the quadratic's three
\* control points in coordinate c.  The quadratic stays within that span, so
\* this is no more than the distance of a point with coordinate v from it.
Outside(seg, c, v) ==
  Max(0, Max(Min(Min(seg.p[c], seg.p[c + 2]), seg.bp[c]) - v,
             v - Max(Max(seg.p[c], seg.p[c + 2]), seg.bp[c])))

\* C17: a cubic is split until each emitted quadratic is within the tolerance
\* of its piece of the true curve, or the depth limit is reached: where one
\* quadratic stands for the whole cubic, the points of the cubic at t = 1/4
\* and t = 3/4 are no farther than the tolerance (and two thousandths for
\* rounding) from the quadratic.
C17_CubicWithinTolerance ==
  pc \in {"awaitImage", "resolved"} =>
    \A i \in 1..Len(pathDataList) :
      WholeCubic(pathDataList[i]) =>
        \A c \in 1..2 :
          /\ Outside(pathDataList[i], c, CubicAtQuarter(pathDataList[i], c)) <= tolerance + 2
          /\ Outside(pathDataList[i], c, CubicAtThreeQuarters(pathDataList[i], c)) <= tolerance + 2


\* -------------------------------------------------------------------------
\* cubicToQuadratic on its own
\* -------------------------------------------------------------------------

\* The coordinates of the two inner control points.  All are multiples of
\* 0.008, on which the products and quotients of the error measure are exact.
CubicXs == {0, U(8)}

CubicYs == {-U(4), 0, U(4)}

\* Cubics from (0, 0) to (8, 0).
Cubics ==
  {<<0, 0, x1, y1, x2, y2, U(8), 0>> : x1 \in CubicXs, y1 \in CubicYs, x2 \in CubicXs, y2 \in CubicYs}

\* The default tolerance, zero, a negative one and NaN, with which every
\* comparison is false as it is with the negative one.
CubicTolerances == {DEFAULT_TOLERANCE, 0, -Unit, NaN}

InitCubic ==
  /\ svg \in {[viewBox |-> <<>>, width |-> <<>>, height |-> <<>>, nodes |-> <<>>]}
  /\ palette = AAP_64
  /\ tolerance \in CubicTolerances
  /\ BuildIdle
  /\ ColorIdle
  /\ cubic \in Cubics
  /\ quads = <<>>
  /\ PureIdle
  /\ HomeIdle

\* A call of cubicToQuadratic at depth 0.
Approximate ==
  /\ quads = <<>>
  /\ quads' = CubicToQuadratic(cubic[1], cubic[2], cubic[3], cubic[4], cubic[5], cubic[6],
                               cubic[7], cubic[8], tolerance, <<>>, FALSE, 0, <<0, 0>>)
  /\ UNCHANGED cubic
  /\ UNCHANGED pureVars
  /\ UNCHANGED homeVars
  /\ UNCHANGED buildVars
  /\ UNCHANGED colorVars

NextCubic == Approximate

SpecCubic == InitCubic /\ [][NextCubic]_vars

\* C18: cubicToQuadratic stops splitting at depth 8, so it returns, for any
\* tolerance, and never more than 2^8 = 256 segments.
C18_AtMost256Segments == quads # <<>> => Len(quads) <= 256

RECURSIVE LocalPoint(_, _)
LocalPoint(cmds, k) ==
  IF k = 0 THEN <<0, 0>>
  ELSE IF cmds[k].type = "H" THEN <<cmds[k].x, LocalPoint(cmds, k - 1)[2]>>
  ELSE IF cmds[k].type = "V" THEN <<LocalPoint(cmds, k - 1)[1], cmds[k].y>>
  ELSE IF cmds[k].type = "Z"
       THEN (IF \E j \in 1..k : cmds[j].type = "M"
             THEN LET m == CHOOSE j \in 1..k : cmds[j].type = "M"
                                               /\ \A i \in (j + 1)..k : cmds[i].type # "M"
                  IN <<cmds[m].x, cmds[m].y>>
             ELSE <<0, 0>>)
  ELSE <<cmds[k].x, cmds[k].y>>

\* Where an L command to the local point after the segment's command would
\* end.
AsLineTo(seg) ==
  ToCastle(LocalPoint(ElementOf(seg).d.cmds, seg.cmd)[1],
           LocalPoint(ElementOf(seg).d.cmds, seg.cmd)[2],
           ElementOf(seg).transform, ViewBoxToCastleTransform(parsed.viewBox))

\* The segments of H and V commands.
AxisSegments == {i \in 1..Len(pathDataList) : CommandOf(pathDataList[i]).type \in {"H", "V"}}

\* The segments of H and V commands of elements whose transform turns or
\* skews (b or c of the matrix is not zero).
TurnedAxisSegments ==
  {i \in AxisSegments : ElementOf(pathDataList[i]).transform[2] # 0
                          \/ ElementOf(pathDataList[i]).transform[3] # 0}

\* C20: under any transform the segment of an H or V command ends where an L
\* command to the same local point would end (to two thousandths, for the
\* rounding of the divisions).
C20_AxisCommandsAsLineTo ==
  pc \in {"awaitImage", "resolved"} =>
    \A i \in AxisSegments :
      /\ Abs(pathDataList[i].p[3] - AsLineTo(pathDataList[i])[1]) <= 2
      /\ Abs(pathDataList[i].p[4] - AsLineTo(pathDataList[i])[2]) <= 2

\* The same for the elements whose transform neither turns nor skews.
AxisCommandsAsLineToUnturned ==
  pc \in {"awaitImage", "resolved"} =>
    \A i \in AxisSegments \ TurnedAxisSegments :
      /\ Abs(pathDataList[i].p[3] - AsLineTo(pathDataList[i])[1]) <= 2
      /\ Abs(pathDataList[i].p[4] - AsLineTo(pathDataList[i])[2]) <= 2

AxisSegmentScaledSeen ==
  /\ pc \in {"awaitImage", "resolved"}
  /\ \E i \in AxisSegments \ TurnedAxisSegments : ElementOf(pathDataList[i]).transform[1] = U(2)


\* ---- Arcs ----

\* The segments that command j of element k gave, over all passes.
SegmentsOfCommand(k, j) ==
  {i \in 1..Len(pathDataList) : /\ pathDataList[i].node = parsed.elements[k].node
                                /\ pathDataList[i].cmd = j}

\* The A commands of element k that end at the current point with radii
\* that are not zero and the large-arc flag set.
FullCircleArcs(k) ==
  {j \in 1..Len(parsed.elements[k].d.cmds) :
     /\ parsed.elements[k].d.cmds[j].type = "A"
     /\ parsed.elements[k].d.cmds[j].rX # 0
     /\ parsed.elements[k].d.cmds[j].rY # 0
     /\ parsed.elements[k].d.cmds[j].lArcFlag = 1
     /\ LocalPoint(parsed.elements[k].d.cmds, j - 1)
          = <<parsed.elements[k].d.cmds[j].x, parsed.elements[k].d.cmds[j].y>>}

\* C21: an A command that ends at the current point, with radii that are not
\* zero and the large-arc flag set, gives four quadratic segments in every
\* pass, each with a bend point.
C21_FullCircleFourArcs ==
  pc \in {"awaitImage", "resolved"} =>
    \A k \in 1..Len(parsed.elements) :
      \A j \in FullCircleArcs(k) :
        /\ Cardinality(SegmentsOfCommand(k, j))
             = 4 * Len(ColorSets(parsed.elements[k], colorMap))
        /\ \A i \in SegmentsOfCommand(k, j) : pathDataList[i].bp # <<>>

\* The state C21 is about is reached: a full-circle arc was converted.
FullCircleArcSeen ==
  /\ pc \in {"awaitImage", "resolved"}
  /\ \E k \in 1..Len(parsed.elements) : FullCircleArcs(k) # {}


\* ---- Z ----

\* The state of the pass with colour set s of element k before its command j.
PassBefore(k, s, j) ==
  ConvertCommands(SubSeq(parsed.elements[k].d.cmds, 1, j - 1), 1,
                  [curX |-> 0, curY |-> 0, startX |-> 0, startY |-> 0, segments |-> <<>>],
                  parsed.elements[k].transform, ViewBoxToCastleTransform(parsed.viewBox),
                  tolerance, s.color, s.isFill, parsed.elements[k].node)

\* The emitted segments of command j of element k in the pass of s.
PassSegments(k, s, j) == {i \in SegmentsOfCommand(k, j) : pathDataList[i].f = s.isFill}

\* The segments of command j start from the point (x, y), if it has any.
StartsFrom(k, s, j, x, y) ==
  PassSegments(k, s, j) # {} =>
    /\ pathDataList[CHOOSE i \in PassSegments(k, s, j) : \A h \in PassSegments(k, s, j) : i <= h].p[1] = x
    /\ pathDataList[CHOOSE i \in PassSegments(k, s, j) : \A h \in PassSegments(k, s, j) : i <= h].p[2] = y

\* What C22 says of the Z command j of element k in the pass of s, which the
\* pass reaches in the state st.
ClosedAt(k, s, j, st) ==
  /\ PassSegments(k, s, j) # {}
       <=> (Abs(st.curX - st.startX) > 1 \/ Abs(st.curY - st.startY) > 1)
  /\ Cardinality(PassSegments(k, s, j)) <= 1
  /\ \A i \in PassSegments(k, s, j) :
       /\ pathDataList[i].p = <<st.curX, st.curY, st.startX, st.startY>>
       /\ pathDataList[i].bp = <<>>
  /\ StartsFrom(k, s, j + 1, st.startX, st.startY)

ZCommands(k) ==
  {j \in 1..Len(parsed.elements[k].d.cmds) : parsed.elements[k].d.cmds[j].type = "Z"}

\* C22: Z gives a straight segment from the current point to the start of
\* the sub-path exactly when they are more than 0.001 apart in x or in y,
\* and the command after Z starts from the start of the sub-path either way.
C22_ClosePath ==
  pc \in {"awaitImage", "resolved"} =>
    \A k \in 1..Len(parsed.elements) :
      \A j \in ZCommands(k) :
        \A n \in 1..Len(ColorSets(parsed.elements[k], colorMap)) :
          ClosedAt(k, ColorSets(parsed.elements[k], colorMap)[n], j,
                   PassBefore(k, ColorSets(parsed.elements[k], colorMap)[n], j))

\* A Z a thousandth from the start in both axes gave no segment and the line
\* after it starts from the start of the sub-path.
C22_Witness ==
  /\ Returned
  /\ \E k \in 1..Len(parsed.elements) :
       \E j \in ZCommands(k) :
         /\ SegmentsOfCommand(k, j) = {}
         /\ SegmentsOfCommand(k, j + 1) # {}
         /\ PassBefore(k, ColorSets(parsed.elements[k], colorMap)[1], j).curX
              # PassBefore(k, ColorSets(parsed.elements[k], colorMap)[1], j).startX


\* ---- Rectangles ----

\* The leaves that come from a rect with rx = ry = 0 (width and height are
\* above 0 for every rect that is a leaf).
PlainRects ==
  {k \in 1..Len(parsed.elements) :
     /\ ToLowerCase(svg.nodes[parsed.elements[k].node].tag) = T_rect
     /\ NumAttr(svg.nodes[parsed.elements[k].node].rx, 0) = 0
     /\ NumAttr(svg.nodes[parsed.elements[k].node].ry, 0) = 0}

\* The segments of element k in the pass of s, in the order of the list.
PassList(k, s) ==
  SelectSeq(pathDataList,
            LAMBDA seg : seg.node = parsed.elements[k].node /\ seg.f = s.isFill)

\* Straight segments, each starting where the one before ended.
StraightChain(segs) ==
  /\ \A i \in 1..Len(segs) : segs[i].bp = <<>>
  /\ \A i \in 1..(Len(segs) - 1) :
       /\ segs[i + 1].p[1] = segs[i].p[3]
       /\ segs[i + 1].p[2] = segs[i].p[4]

\* Four straight segments in a closed loop.
ClosedLoopOfFour(segs) ==
  /\ Len(segs) = 4
  /\ StraightChain(segs)
  /\ segs[4].p[3] = segs[1].p[1]
  /\ segs[4].p[4] = segs[1].p[2]

\* Three straight segments that end within 0.001 of where they began in both
\* axes.
OpenLoopOfThree(segs) ==
  /\ Len(segs) = 3
  /\ StraightChain(segs)
  /\ Abs(segs[3].p[3] - segs[1].p[1]) <= 1
  /\ Abs(segs[3].p[4] - segs[1].p[2]) <= 1

\* The fourth corner of the rect of element k is more than 0.001 from the
\* first in x or in y, in drawing units.
CornersApart(k) ==
  LET cmds == parsed.elements[k].d.cmds
      first == ToCastle(cmds[1].x, cmds[1].y, parsed.elements[k].transform,
                        ViewBoxToCastleTransform(parsed.viewBox))
      fourth == ToCastle(cmds[4].x, cmds[4].y, parsed.elements[k].transform,
                         ViewBoxToCastleTransform(parsed.viewBox))
  IN Abs(fourth[1] - first[1]) > 1 \/ Abs(fourth[2] - first[2]) > 1

\* C23: a rect with rx = ry = 0 gives, in every pass, four straight segments
\* in a closed loop, whatever the viewBox scale and the size of the rect.
C23_RectFourSegmentsClosed ==
  pc \in {"awaitImage", "resolved"} =>
    \A k \in PlainRects :
      \A n \in 1..Len(ColorSets(parsed.elements[k], colorMap)) :
        ClosedLoopOfFour(PassList(k, ColorSets(parsed.elements[k], colorMap)[n]))

\* C23, amended: the four segments in a closed loop are given when the
\* fourth corner is more than 0.001 from the first in x or in y; otherwise
\* three straight segments are given, which end within 0.001 of their start.
C23_RectClosedWhenCornersApart ==
  pc \in {"awaitImage", "resolved"} =>
    \A k \in PlainRects :
      \A n \in 1..Len(ColorSets(parsed.elements[k], colorMap)) :
        IF CornersApart(k)
        THEN ClosedLoopOfFour(PassList(k, ColorSets(parsed.elements[k], colorMap)[n]))
        ELSE OpenLoopOfThree(PassList(k, ColorSets(parsed.elements[k], colorMap)[n]))

\* Two rects, one of them with two passes, gave closed loops of four.
C23_Witness ==
  /\ Returned
  /\ Cardinality(PlainRects) = 2
  /\ \A k \in PlainRects : CornersApart(k)
  /\ \E k \in PlainRects : Len(ColorSets(parsed.elements[k], colorMap)) = 2
  /\ Len(pathDataList) >= 12

\* A rect of height 0.001 at scale 1 gave three segments in each pass.
ThinRectSeen ==
  /\ Returned
  /\ \E k \in PlainRects : ~CornersApart(k)
  /\ Len(pathDataList) = 6


\* -------------------------------------------------------------------------
\* parseTransform on its own
\* -------------------------------------------------------------------------

\* translate(10,0), translate(1,2), scale(2), scale(2,3), rotate(90),
\* skewX(45), matrix(0 1 -1 0 10 0) and rotate(90, 1, 1)
Primitives ==
  { [type |-> "translate", args |-> <<U(10), 0>>],
    [type |-> "translate", args |-> <<U(1), U(2)>>],
    [type |-> "scale", args |-> <<U(2)>>],
    [type |-> "scale", args |-> <<U(2), U(3)>>],
    [type |-> "rotate", args |-> <<90>>],
    [type |-> "skewx", args |-> <<45>>],
    [type |-> "matrix", args |-> <<0, U(1), -U(1), 0, U(10), 0>>],
    [type |-> "rotate", args |-> <<90, U(1), U(1)>>] }

\* The most primitives in a transform attribute.
MaxPrimitives == 2

TransformAttrs == UNION {[1..n -> Primitives] : n \in 1..MaxPrimitives}

TransformPoints == { <<U(1), 0>>, <<0, U(1)>>, <<U(3), -U(2)>> }

InitTransform ==
  /\ svg \in {[viewBox |-> <<>>, width |-> <<>>, height |-> <<>>, nodes |-> <<>>]}
  /\ palette = AAP_64
  /\ tolerance = DEFAULT_TOLERANCE
  /\ BuildIdle
  /\ ColorIdle
  /\ CubicIdle
  /\ HomeIdle
  /\ called \in {[fn |-> "parseTransform", args |-> <<t, p>>] : t \in TransformAttrs, p \in TransformPoints}
  /\ returned = NoReturn

\* transformPoint(parseTransform(attr), x, y)
ApplyTransform ==
  /\ called.fn = "parseTransform"
  /\ ~returned.done
  /\ returned' = [done |-> TRUE,
                  value |-> TransformPoint(ParseTransform(called.args[1]),
                                           called.args[2][1], called.args[2][2])]
  /\ UNCHANGED called
  /\ UNCHANGED buildVars
  /\ UNCHANGED colorVars
  /\ UNCHANGED cubicVars
  /\ UNCHANGED homeVars

NextTransform == ApplyTransform

SpecTransform == InitTransform /\ [][NextTransform]_vars

\* The primitives applied to the point p one after the other, the first of
\* the list first.
RECURSIVE FirstWrittenFirst(_, _)
FirstWrittenFirst(prims, p) ==
  IF prims = <<>> THEN p
  ELSE FirstWrittenFirst(Tail(prims), TransformPoint(PrimitiveMatrix(Head(prims)), p[1], p[2]))

\* The primitives applied to the point p one after the other, the last of
\* the list first.
RECURSIVE LastWrittenFirst(_, _)
LastWrittenFirst(prims, p) ==
  IF prims = <<>> THEN p
  ELSE TransformPoint(PrimitiveMatrix(Head(prims)), LastWrittenFirst(Tail(prims), p)[1],
                      LastWrittenFirst(Tail(prims), p)[2])

\* C24: the matrix of a transform attribute applies its primitives to a point
\* in written order, the left-most first.
C24_LeftMostFirst ==
  returned.done => returned.value = FirstWrittenFirst(called.args[1], called.args[2])

\* C24, amended: the matrix is the product of the primitives in written
\* order, so it applies the right-most primitive first.
C24_RightMostFirst ==
  returned.done => returned.value = LastWrittenFirst(called.args[1], called.args[2])

\* "translate(10,0) scale(2)" sent (1, 0) to (12, 0), not to (22, 0).
C24_Witness ==
  /\ returned.done
  /\ called.args[1] = << [type |-> "translate", args |-> <<U(10), 0>>],
                         [type |-> "scale", args |-> <<U(2)>>] >>
  /\ called.args[2] = <<U(1), 0>>
  /\ returned.value = <<U(12), 0>>


\* -------------------------------------------------------------------------
\* multiply and transformPoint on their own
\* -------------------------------------------------------------------------

\* Matrices with whole entries: the identity, a translation, a scale, a
\* quarter turn, a skew and one with no zero entry.
WholeMatrices ==
  { IDENTITY,
    <<U(1), 0, 0, U(1), U(10), -U(3)>>,
    <<U(2), 0, 0, U(3), 0, 0>>,
    <<0, U(1), -U(1), 0, 0, 0>>,
    <<U(1), 0, U(1), U(1), 0, 0>>,
    <<U(2), U(1), -U(1), U(3), U(5), -U(4)>> }

\* scale(0.5) and scale(0.001): their product is not a multiple of 0.001, as
\* the product of two doubles need not be a double.
FractionMatrices == { <<500, 0, 0, 500, 0, 0>>, <<1, 0, 0, 1, 0, 0>> }

Matrices == WholeMatrices \cup FractionMatrices

MatrixPoints == { <<U(1), 0>>, <<U(3), -U(2)>> }

InitMatrix ==
  /\ svg \in {[viewBox |-> <<>>, width |-> <<>>, height |-> <<>>, nodes |-> <<>>]}
  /\ palette = AAP_64
  /\ tolerance = DEFAULT_TOLERANCE
  /\ BuildIdle
  /\ ColorIdle
  /\ CubicIdle
  /\ HomeIdle
  /\ called \in {[fn |-> "multiply", args |-> <<a, b, c, p>>] :
                   a \in Matrices, b \in Matrices, c \in Matrices, p \in MatrixPoints}
  /\ returned = NoReturn

\* The products and images the laws of composition speak about, for the
\* matrices a, b, c and the point p of the call.
Compose ==
  /\ called.fn = "multiply"
  /\ ~returned.done
  /\ returned' =
       [done |-> TRUE,
        value |-> [leftFirst |-> Multiply(Multiply(called.args[1], called.args[2]), called.args[3]),
                   rightFirst |-> Multiply(called.args[1], Multiply(called.args[2], called.args[3])),
                   unitLeft |-> Multiply(IDENTITY, called.args[1]),
                   unitRight |-> Multiply(called.args[1], IDENTITY),
                   unitPoint |-> TransformPoint(IDENTITY, called.args[4][1], called.args[4][2]),
                   product |-> TransformPoint(Multiply(called.args[1], called.args[2]),
                                              called.args[4][1], called.args[4][2]),
                   nested |-> TransformPoint(called.args[1],
                                TransformPoint(called.args[2], called.args[4][1], called.args[4][2])[1],
                                TransformPoint(called.args[2], called.args[4][1], called.args[4][2])[2])]]
  /\ UNCHANGED called
  /\ UNCHANGED buildVars
  /\ UNCHANGED colorVars
  /\ UNCHANGED cubicVars
  /\ UNCHANGED homeVars

NextMatrix == Compose

SpecMatrix == InitMatrix /\ [][NextMatrix]_vars

\* The identity is a unit on both sides and leaves a point where it is.
UnitLaws ==
  /\ returned.value.unitLeft = called.args[1]
  /\ returned.value.unitRight = called.args[1]
  /\ returned.value.unitPoint = called.args[4]

\* Composition is associative and the product applies its right factor
\* first.
ProductLaws ==
  /\ returned.value.leftFirst = returned.value.rightFirst
  /\ returned.value.product = returned.value.nested

ViewBoxOrigins == { -U(5), 0, U(3) }

ViewBoxSizes == { U(1), U(3), U(7), U(10), U(40) }

ViewBoxes ==
  { <<vx, vy, vw, vh>> : vx \in ViewBoxOrigins, vy \in ViewBoxOrigins,
                         vw \in ViewBoxSizes, vh \in ViewBoxSizes }

InitViewBox ==
  /\ svg \in {[viewBox |-> <<>>, width |-> <<>>, height |-> <<>>, nodes |-> <<>>]}
  /\ palette = AAP_64
  /\ tolerance = DEFAULT_TOLERANCE
  /\ BuildIdle
  /\ ColorIdle
  /\ CubicIdle
  /\ HomeIdle
  /\ called \in {[fn |-> "viewBoxToCastleTransform", args |-> <<vb>>] : vb \in ViewBoxes}
  /\ returned = NoReturn

\* The remap of a viewBox, and where toCastle under the identity element
\* matrix then sends the viewBox's centre and its two extreme corners.
Remap ==
  /\ called.fn = "viewBoxToCastleTransform"
  /\ ~returned.done
  /\ LET vb == called.args[1]
         t == ViewBoxToCastleTransform(vb)
     IN returned' =
          [done |-> TRUE,
           value |-> [vbTransform |-> t,
                      centre |-> ToCastle(vb[1] + Div(vb[3], 2), vb[2] + Div(vb[4], 2), IDENTITY, t),
                      low |-> ToCastle(vb[1], vb[2], IDENTITY, t),
                      high |-> ToCastle(vb[1] + vb[3], vb[2] + vb[4], IDENTITY, t)]]
  /\ UNCHANGED called
  /\ UNCHANGED buildVars
  /\ UNCHANGED colorVars
  /\ UNCHANGED cubicVars
  /\ UNCHANGED homeVars

NextViewBox == Remap

SpecViewBox == InitViewBox /\ [][NextViewBox]_vars

\* The image [lo, hi] of one viewBox side of length len, the longer side
\* being longest: centred, of length 20 * len / longest, to the rounding of
\* the scale and of the products.
SpansCentred(lo, hi, len, longest) ==
  /\ Abs(lo + hi) <= 2
  /\ Abs((hi - lo) * (longest \div Unit) - 2 * CASTLE_HALF_SIZE * len) <= 4 * (longest \div Unit)
  /\ len = longest => Abs(lo + CASTLE_HALF_SIZE * Unit) <= 2 /\ Abs(hi - CASTLE_HALF_SIZE * Unit) <= 2
  /\ len < longest => -(CASTLE_HALF_SIZE * Unit) < lo /\ lo < hi /\ hi < CASTLE_HALF_SIZE * Unit

\* C26: the remap sends the viewBox centre to the origin, scales both axes
\* by 20 / max(vw, vh), and sends the viewBox to a rectangle spanning
\* [-10, 10] along the longer dimension and a centred sub-interval of it
\* along the shorter, whatever the origin.
C26_ViewBoxRemap ==
  returned.done /\ called.fn = "viewBoxToCastleTransform" =>
    LET vb == called.args[1]
        longest == Max(vb[3], vb[4])
        v == returned.value
    IN /\ Abs(v.centre[1]) <= 2 /\ Abs(v.centre[2]) <= 2
       /\ Abs(v.vbTransform.scale * (longest \div Unit) - 2 * CASTLE_HALF_SIZE * Unit) <= longest \div Unit
       /\ SpansCentred(v.low[1], v.high[1], vb[3], longest)
       /\ SpansCentred(v.low[2], v.high[2], vb[4], longest)

\* A viewBox wider than tall, away from the origin, has been remapped and
\* its height covers a proper part of [-10, 10].
C26_Witness ==
  /\ returned.done
  /\ called.fn = "viewBoxToCastleTransform"
  /\ called.args[1] = <<U(3), -U(5), U(40), U(10)>>
  /\ returned.value.low = <<-U(10), -2500>>
  /\ returned.value.high = <<U(10), 2500>>


\* ---------------------------------------------------------------------
\* normalizeColor on its own
\* ---------------------------------------------------------------------

\* "#" with three characters, hexadecimal or not, in either case
ShortHexColors == { <<"#", a, b, c>> : a \in {"0", "A", "f", "g"}, b \in {"0", "A", "f", "g"},
                                       c \in {"0", "A", "f", "g"} }

\* "#" with six, eight and other numbers of characters
LongHexColors ==
  { <<"#", "1", "2", "3", "4", "5", c>> : c \in {"6", "E", "z"} }
    \cup { <<"#", "a", "b", "c", "d", "e", c, "8", "0">> : c \in {"f", "x"} }
    \cup { <<"#">>, <<"#", "1", "2", "3", "4">> }

\* rgb(r,g, b) and rgba(r,g, b) with channels within and above 255
ChannelTexts == { <<"0">>, <<"2", "5", "5">>, <<"3", "0", "0">> }

RgbColors ==
  { name \o <<"(">> \o r \o <<",">> \o g \o <<",", " ">> \o b \o <<")">> :
      name \in { <<"r", "g", "b">>, <<"R", "G", "B", "A">> },
      r \in ChannelTexts, g \in ChannelTexts, b \in ChannelTexts }

\* names in the table, with spaces and capitals, and names outside it
NameColors ==
  { Chars("red"), <<" ", "R", "e", "d", " ">>, Chars("none"), Chars("transparent"),
    <<"r", "e", "b">>, <<>> }

ColorTexts == ShortHexColors \cup LongHexColors \cup RgbColors \cup NameColors

InitColor ==
  /\ svg \in {[viewBox |-> <<>>, width |-> <<>>, height |-> <<>>, nodes |-> <<>>]}
  /\ palette = AAP_64
  /\ tolerance = DEFAULT_TOLERANCE
  /\ BuildIdle
  /\ ColorIdle
  /\ CubicIdle
  /\ HomeIdle
  /\ called \in {[fn |-> "normalizeColor", args |-> <<c>>] : c \in ColorTexts}
  /\ returned = NoReturn

Normalize ==
  /\ called.fn = "normalizeColor"
  /\ ~returned.done
  /\ returned' = [done |-> TRUE, value |-> NormalizeColor(called.args[1])]
  /\ UNCHANGED called
  /\ UNCHANGED buildVars
  /\ UNCHANGED colorVars
  /\ UNCHANGED cubicVars
  /\ UNCHANGED homeVars

NextColor == Normalize

SpecColor == InitColor /\ [][NextColor]_vars

\* "#" followed by exactly six lowercase hexadecimal digits
IsSixDigitHex(s) ==
  /\ Len(s) = 7
  /\ s[1] = "#"
  /\ \A i \in 2..7 : IndexOf(HexChars, s[i]) > 0

\* C27: normalizeColor returns, for every input string, null or "#" followed
\* by exactly six lowercase hexadecimal digits.
C27_NormalizedForm ==
  returned.done /\ called.fn = "normalizeColor" =>
    returned.value = <<>> \/ IsSixDigitHex(returned.value)

\* A result of another form comes only from "#" with a character that is no
\* hexadecimal digit or from an rgb() channel above 255.
OnlyMalformedInputsEscape ==
  returned.done /\ called.fn = "normalizeColor" /\ ~(returned.value = <<>> \/ IsSixDigitHex(returned.value)) =>
    \/ \E i \in 2..Len(called.args[1]) : called.args[1][1] = "#" /\ called.args[1][i] \in {"g", "z", "x"}
    \/ \E i \in 1..Len(called.args[1]) : called.args[1][i] = "3"


\* ---- Paints and passes ----

\* The segments of element k with the given isFill.
PassOf(k, isFill) ==
  {i \in 1..Len(pathDataList) :
     pathDataList[i].node = parsed.elements[k].node /\ pathDataList[i].f = isFill}

\* Element k has segments at all: its d parsed and drew something.
Drew(k) == \E i \in 1..Len(pathDataList) : pathDataList[i].node = parsed.elements[k].node

\* Each paint of element k that is not null is a key of the colour mapping,
\* the element has one coloured pass for each, and it has a segment without
\* a colour only when both paints are null.
PaintsMapped(k) ==
  LET el == parsed.elements[k]
  IN /\ el.fill # <<>> => MapHas(colorMap, el.fill)
     /\ el.stroke # <<>> => MapHas(colorMap, el.stroke)
     /\ Drew(k) =>
          /\ el.fill # <<>> =>
               /\ PassOf(k, TRUE) # {}
               /\ \A i \in PassOf(k, TRUE) : pathDataList[i].c # <<>>
          /\ el.stroke # <<>> =>
               \E i \in PassOf(k, FALSE) : pathDataList[i].c # <<>>
     /\ \A i \in 1..Len(pathDataList) :
          pathDataList[i].node = el.node /\ pathDataList[i].c = <<>> =>
            el.fill = <<>> /\ el.stroke = <<>>

\* C28: for every leaf the flattener emits, each fill and each stroke that
\* is not null is a key of the colour mapping of the same build, so the leaf
\* has one coloured pass for each; a segment without a colour array comes
\* only from a leaf whose fill and stroke are both null.
C28_PaintsAreKeys ==
  pc \in {"awaitImage", "resolved"} =>
    \A k \in 1..Len(parsed.elements) : PaintsMapped(k)

\* A leaf with a paint that is not null has been converted.
PaintedLeafSeen ==
  /\ Returned
  /\ \E k \in 1..Len(parsed.elements) : parsed.elements[k].fill # <<>> /\ Drew(k)


\* The same for the leaves whose paints are null or "#" with six
\* hexadecimal digits.
SixDigitPaintsAreKeys ==
  pc \in {"awaitImage", "resolved"} =>
    \A k \in 1..Len(parsed.elements) :
      /\ parsed.elements[k].fill = <<>> \/ IsSixDigitHex(parsed.elements[k].fill)
      /\ parsed.elements[k].stroke = <<>> \/ IsSixDigitHex(parsed.elements[k].stroke)
      => PaintsMapped(k)


\* ---- Arcs under the element transform ----

\* The factor of element k's transform when it is a uniform scale by a
\* positive factor, 0 otherwise.
UniformScale(k) ==
  LET m == parsed.elements[k].transform
  IN IF m[1] > 0 /\ m[4] = m[1] /\ m[2] = 0 /\ m[3] = 0 /\ m[5] = 0 /\ m[6] = 0
     THEN m[1] ELSE 0

\* A command with all its coordinates and radii multiplied by s.
ScaledCommand(cmd, s) ==
  [cmd EXCEPT !.x = FMul(cmd.x, s), !.y = FMul(cmd.y, s),
              !.x1 = FMul(cmd.x1, s), !.y1 = FMul(cmd.y1, s),
              !.x2 = FMul(cmd.x2, s), !.y2 = FMul(cmd.y2, s),
              !.rX = FMul(cmd.rX, s), !.rY = FMul(cmd.rY, s)]

\* Element k with its path multiplied by s, under the identity transform.
Premultiplied(k, s) ==
  [parsed.elements[k] EXCEPT
     !.transform = IDENTITY,
     !.d = PathD([j \in 1..Len(parsed.elements[k].d.cmds) |->
                    ScaledCommand(parsed.elements[k].d.cmds[j], s)])]

\* The segments of element k as the list has them.
SegmentsOfElement(k) ==
  SelectSeq(pathDataList, LAMBDA seg : seg.node = parsed.elements[k].node)

\* Two lists of segments are the same to two thousandths in every coordinate.
SameSegments(a, b) ==
  /\ Len(a) = Len(b)
  /\ \A i \in 1..Len(a) :
       /\ a[i].cmd = b[i].cmd /\ a[i].f = b[i].f /\ a[i].c = b[i].c /\ a[i].s = b[i].s
       /\ Len(a[i].bp) = Len(b[i].bp)
       /\ \A j \in 1..Len(a[i].p) : Abs(a[i].p[j] - b[i].p[j]) <= 2
       /\ \A j \in 1..Len(a[i].bp) : Abs(a[i].bp[j] - b[i].bp[j]) <= 2

\* The leaves under a uniform scale that have an A command, and those that
\* have none.
ScaledWithArc ==
  {k \in 1..Len(parsed.elements) :
     /\ UniformScale(k) \notin {0, Unit}
     /\ parsed.elements[k].d.kind = "cmds"
     /\ \E j \in 1..Len(parsed.elements[k].d.cmds) : parsed.elements[k].d.cmds[j].type = "A"}

\* C29: for a leaf whose transform is a uniform scale by k > 0 the segments
\* are those of the same path with all coordinates and radii multiplied by k
\* under the identity transform, A commands included.
C29_ArcsFollowTransform ==
  pc \in {"awaitImage", "resolved"} =>
    \A k \in ScaledWithArc :
      SameSegments(SegmentsOfElement(k),
                   ConvertElement(Premultiplied(k, UniformScale(k)), parsed.viewBox, colorMap, tolerance))

\* The same for the commands that are not arcs: the segments of the L
\* command after the arc are those of the multiplied path.
LinesFollowTransform ==
  pc \in {"awaitImage", "resolved"} =>
    \A k \in ScaledWithArc :
      SameSegments(SelectSeq(SegmentsOfElement(k), LAMBDA seg : CommandOf(seg).type # "A"),
                   SelectSeq(ConvertElement(Premultiplied(k, UniformScale(k)), parsed.viewBox,
                                            colorMap, tolerance),
                             LAMBDA seg : CommandOf(seg).type # "A"))

\* A leaf with an arc has been converted under a scale below 1 and one under
\* a scale above 1.
ScaledArcSeen ==
  /\ Returned
  /\ \E k \in ScaledWithArc : SegmentsOfElement(k) # <<>>


\* ---------------------------------------------------------------------
\* The home screen (HomeScreen.handleGenerate behind PromptInput)
\* ---------------------------------------------------------------------

\* What the text field may hold when Generate is pressed.
Prompts == { <<>>, <<" ">>, <<" ", "c", "a", "t">> }

\* What generateSvg may resolve with: two drawings and a text without an
\* <svg> element.
HomeDocs ==
  { SvgDoc(SquareViewBoxAttr, <<>>, <<>>, <<I_RectFull>>),
    SvgDoc(SquareViewBoxAttr, <<>>, <<>>, <<I_PathS>>),
    [viewBox |-> <<>>, width |-> <<>>, height |-> <<>>, nodes |-> <<>>] }

\* The most presses of Generate in a behaviour.
MaxPresses == 3

\* The messages setError is called with.
E_noKey == "No API key configured. Go to Settings to add your Recraft API key."

E_generate == "generateSvg"

E_convert == "buildCastleDrawData"

\* buildCastleDrawData is not running.
NoCallOfBuild == [threw |-> FALSE, parsed |-> NoParsed, colorMap |-> <<>>, pathDataList |-> <<>>]

\* The screen as mounted: useState's initial values (null is <<>>, a value v
\* is <<v>>), no attempt in flight.
Mounted ==
  [isLoading |-> FALSE, svgContent |-> <<>>, drawData |-> <<>>, colorMappings |-> <<>>,
   warnings |-> <<>>, error |-> <<>>, phase |-> "idle", build |-> NoCallOfBuild, presses |-> 0]

InitHome ==
  /\ svg \in {[viewBox |-> <<>>, width |-> <<>>, height |-> <<>>, nodes |-> <<>>]}
  /\ palette = AAP_64
  /\ tolerance = DEFAULT_TOLERANCE
  /\ BuildIdle
  /\ ColorIdle
  /\ CubicIdle
  /\ PureIdle
  /\ home = Mounted

\* buildCastleDrawData(doc) up to its await, from the parsed document p: it
\* has thrown, or it waits for the fill image with the colour map and the
\* segments computed.
CallOfBuildWithMap(p, map) ==
  [threw |-> FALSE, parsed |-> p, colorMap |-> map,
   pathDataList |-> ConvertAllPaths(p.elements, p.viewBox, map, DEFAULT_TOLERANCE)]

CallOfBuildParsed(p) ==
  IF p.threw THEN [NoCallOfBuild EXCEPT !.threw = TRUE]
  ELSE CallOfBuildWithMap(p, BuildColorMap(p.colors, AAP_64.hex, AAP_64.castle))

CallOfBuild(doc) == CallOfBuildParsed(ParseSvg(doc))

\* What the call b resolves with when the fill image is png and the layer
\* id is id.
BuildResultOf(b, fillBounds, png, id) ==
  [drawData |-> DrawData(AAP_64.castle, id, b.pathDataList, fillBounds, png),
   colorMappings |-> b.colorMap,
   warnings |-> b.parsed.warnings \o HighDeltaEWarnings(b.colorMap)
                  \o StrokeWidthWarnings(b.parsed.elements)
                  \o (IF png = EmptyStr /\ ~FillIsEmpty(fillBounds)
                      THEN <<FillPngWarning>> ELSE <<>>)]

BuildResult(b, png, id) == BuildResultOf(b, ComputeBounds(b.pathDataList), png, id)

\* The screen h once the three setters and finally have run on the result r.
ShowResult(h, r) ==
  [h EXCEPT !.drawData = <<r.drawData>>, !.colorMappings = <<r.colorMappings>>,
            !.warnings = r.warnings, !.isLoading = FALSE, !.phase = "idle",
            !.build = NoCallOfBuild]

\* The drawing and the mappings of the screen h are those of the result r.
ShowsResult(h, r) ==
  /\ h.drawData = <<r.drawData>>
  /\ h.colorMappings = <<r.colorMappings>>

\* Generate is pressed (or the text is submitted).  PromptInput drops the
\* press for a blank prompt and while loading; handleGenerate then stops with
\* an error without a key, and otherwise starts loading and calls generateSvg.
Press ==
  /\ home # <<>>
  /\ home.presses < MaxPresses
  /\ \E prompt \in Prompts, hasApiKey \in BOOLEAN :
       home' =
         IF Trim(prompt) = <<>> \/ home.isLoading
         THEN [home EXCEPT !.presses = @ + 1]
         ELSE IF ~hasApiKey
         THEN [home EXCEPT !.presses = @ + 1, !.error = <<E_noKey>>]
         ELSE [home EXCEPT !.presses = @ + 1, !.isLoading = TRUE, !.error = <<>>,
                           !.warnings = <<>>, !.phase = "generating"]
  /\ UNCHANGED buildVars
  /\ UNCHANGED colorVars
  /\ UNCHANGED cubicVars
  /\ UNCHANGED pureVars

\* generateSvg resolves: setSvgContent(svg), then buildCastleDrawData(svg)
\* is called, runs up to its await, and is awaited.
GenerateSvgResolves ==
  /\ home # <<>>
  /\ home.phase = "generating"
  /\ \E doc \in HomeDocs :
       home' = [home EXCEPT !.svgContent = <<doc>>, !.phase = "converting",
                            !.build = CallOfBuild(doc)]
  /\ UNCHANGED buildVars
  /\ UNCHANGED colorVars
  /\ UNCHANGED cubicVars
  /\ UNCHANGED pureVars

\* generateSvg rejects: catch sets the error, finally ends the loading.
GenerateSvgRejects ==
  /\ home # <<>>
  /\ home.phase = "generating"
  /\ home' = [home EXCEPT !.error = <<E_generate>>, !.isLoading = FALSE, !.phase = "idle"]
  /\ UNCHANGED buildVars
  /\ UNCHANGED colorVars
  /\ UNCHANGED cubicVars
  /\ UNCHANGED pureVars

\* The promise of buildCastleDrawData resolves, with or without a fill
\* image: the three setters, then finally.
BuildResolves ==
  /\ home # <<>>
  /\ home.phase = "converting"
  /\ ~home.build.threw
  /\ \E png \in {EmptyStr, Base64Of(PngBody)}, id \in LayerIds :
       home' = ShowResult(home, BuildResult(home.build, png, id))
  /\ UNCHANGED buildVars
  /\ UNCHANGED colorVars
  /\ UNCHANGED cubicVars
  /\ UNCHANGED pureVars

\* The promise of buildCastleDrawData is rejected (parseSvg threw): catch,
\* then finally.
BuildRejects ==
  /\ home # <<>>
  /\ home.phase = "converting"
  /\ home.build.threw
  /\ home' = [home EXCEPT !.error = <<E_convert>>, !.isLoading = FALSE, !.phase = "idle",
                          !.build = NoCallOfBuild]
  /\ UNCHANGED buildVars
  /\ UNCHANGED colorVars
  /\ UNCHANGED cubicVars
  /\ UNCHANGED pureVars

NextHome ==
  \/ Press
  \/ GenerateSvgResolves
  \/ GenerateSvgRejects
  \/ BuildResolves
  \/ BuildRejects

SpecHome == InitHome /\ [][NextHome]_vars

\* The promises of generateSvg and of buildCastleDrawData settle.
FairSpecHome ==
  /\ SpecHome
  /\ WF_vars(GenerateSvgResolves \/ GenerateSvgRejects)
  /\ WF_vars(BuildResolves \/ BuildRejects)

\* The drawing and the mappings shown are those of a conversion of doc.
ConversionOf(doc) ==
  \E png \in {EmptyStr, Base64Of(PngBody)}, id \in LayerIds :
    ShowsResult(home, BuildResult(CallOfBuild(doc), png, id))

\* When not loading, the SVG and the drawing shown are of one generation:
\* all null, or the drawing is the conversion of the SVG.
SameGenerationShown ==
  home # <<>> /\ ~home.isLoading =>
    \/ home.svgContent = <<>> /\ home.drawData = <<>> /\ home.colorMappings = <<>>
    \/ home.svgContent # <<>> /\ ~CallOfBuild(home.svgContent[1]).threw /\ ConversionOf(home.svgContent[1])

Loading == home # <<>> /\ home.isLoading

\* C30: after any sequence of generate attempts, whenever isLoading is
\* false the svgContent and the drawData/colorMappings shown come from the
\* same generation, and every attempt that set isLoading to true sets it
\* back to false in the end.
C30_HomeConsistent == [](SameGenerationShown) /\ (Loading ~> ~Loading)

\* Every attempt that started loading stops loading.
LoadingEnds == Loading ~> ~Loading

\* When the last attempt went through (not loading, an SVG shown and no
\* error), the drawing shown is the conversion of the SVG shown.
AgreeAfterSuccess ==
  home # <<>> /\ ~home.isLoading /\ home.error = <<>> /\ home.svgContent # <<>> =>
    ConversionOf(home.svgContent[1])

\* A conversion failed after an earlier success: the new SVG is shown
\* beside the old drawing.
StaleDrawingSeen ==
  /\ home # <<>>
  /\ ~home.isLoading
  /\ home.error = <<E_convert>>
  /\ home.drawData # <<>>

====
